---- MODULE Spec2Model ----
(***************************************************************************)
(* Chat orchestrator of opencode_python: Session.chat_streaming and its    *)
(* background task _process_streaming, the StreamingSessionResponse chunk  *)
(* list shared with the consumer (Session.chat / the TUI), the tool        *)
(* dispatch through ToolRegistry.execute_tool, and the on-disk session     *)
(* store (add_message / get_messages / _update_session_info), also when    *)
(* the process dies inside a write; the credential file of Auth and the    *)
(* Copilot token cache of GitHubCopilotAuthManager.get_access_token.       *)
(* AnthropicProvider.chat_streaming as a generator over upstream events;   *)
(* the edit, multiedit, write, read, todo and bash tools, with file        *)
(* contents as sequences of characters; the arguments AnthropicProvider    *)
(* builds for client.messages.create, the device-flow poll of the Copilot  *)
(* provider, the EventBus, and the custom modes kept in config.modes.      *)
(*                                                                         *)
(* Strings are modelled as sequences of tokens so that concatenation,      *)
(* slicing and "contains" are computed, not assumed.  Python's None is the *)
(* string "None" for string fields and NoUsage for the usage dict.         *)
(* asyncio is cooperative: code between two awaits is one atomic action.   *)
(***************************************************************************)
EXTENDS Integers, Sequences, FiniteSets, TLC

-----------------------------------------------------------------------------
(* Bounds of the model *)

MaxTurns == 2
MaxProviderChunks == 3
MaxAdds == 2

-----------------------------------------------------------------------------
(* Program constants *)

chunk_size == 20
TitleLen == 50

None == "None"
NoUsage == [some |-> FALSE, total_tokens |-> 0]
Usage(n) == [some |-> TRUE, total_tokens |-> n]

-----------------------------------------------------------------------------
(* String helpers (token sequences) *)

Whitespace == {" ", "\n", "\n\n"}

Take(s, n) == SubSeq(s, 1, IF n < Len(s) THEN n ELSE Len(s))

Slice(s, i, j) == SubSeq(s, i + 1, IF j < Len(s) THEN j ELSE Len(s))

RECURSIVE LStrip(_)
LStrip(s) == IF s # <<>> /\ Head(s) \in Whitespace THEN LStrip(Tail(s)) ELSE s

RECURSIVE RStrip(_)
RStrip(s) ==
    IF s # <<>> /\ s[Len(s)] \in Whitespace THEN RStrip(SubSeq(s, 1, Len(s) - 1)) ELSE s

Strip(s) == RStrip(LStrip(s))

RECURSIVE Join(_, _)
Join(sep, xs) ==
    IF xs = <<>> THEN <<>>
    ELSE IF Len(xs) = 1 THEN xs[1]
    ELSE xs[1] \o sep \o Join(sep, Tail(xs))

Contains(s, sub) ==
    \E i \in 0..(Len(s) - Len(sub)) : SubSeq(s, i + 1, i + Len(sub)) = sub

RECURSIVE Repeat(_, _)
Repeat(tok, n) == IF n = 0 THEN <<>> ELSE <<tok>> \o Repeat(tok, n - 1)

-----------------------------------------------------------------------------
(* StreamingSessionResponse *)

NoKw == [tool_calls |-> <<>>, usage |-> NoUsage, call_id |-> None]

Chunk(chunk_type, content, kwargs) ==
    [type |-> chunk_type, content |-> content, tool_calls |-> kwargs.tool_calls,
     usage |-> kwargs.usage, call_id |-> kwargs.call_id]

StreamingSessionResponse ==
    [content |-> <<>>, tool_calls |-> <<>>, usage |-> NoUsage, is_complete |-> FALSE,
     _chunks |-> <<>>, _processing_started |-> FALSE]

add_chunk(s, chunk_type, content, kwargs) ==
    [s EXCEPT !._chunks = Append(@, Chunk(chunk_type, content, kwargs)),
              !.content = IF chunk_type = "content" THEN @ \o content ELSE @]

\* complete() that enqueues the chunk but forgets the is_complete flag.
complete_no_flag(s, usage) ==
    add_chunk([s EXCEPT !.usage = usage], "complete", <<>>, NoKw)

complete(s, usage) ==
    add_chunk([s EXCEPT !.usage = usage, !.is_complete = TRUE], "complete", <<>>, NoKw)

\* __anext__ with pop() instead of pop(0): takes the newest chunk.
anext_pop_last(s) ==
    IF ~s._processing_started /\ ~s.is_complete THEN [kind |-> "sleep"]
    ELSE IF s._chunks # <<>> THEN
        [kind |-> "chunk", chunk |-> s._chunks[Len(s._chunks)],
         rest |-> SubSeq(s._chunks, 1, Len(s._chunks) - 1)]
    ELSE IF s.is_complete THEN [kind |-> "stop"]
    ELSE [kind |-> "sleep"]

\* One pass of __anext__ between two sleeps: what the call does with the
\* response as it stands.
anext(s) ==
    IF ~s._processing_started /\ ~s.is_complete THEN [kind |-> "sleep"]
    ELSE IF s._chunks # <<>> THEN
        [kind |-> "chunk", chunk |-> Head(s._chunks), rest |-> Tail(s._chunks)]
    ELSE IF s.is_complete THEN [kind |-> "stop"]
    ELSE [kind |-> "sleep"]

-----------------------------------------------------------------------------
(* Modes, tools and providers *)

\* Mode._default_modes (two of the four built-in modes are drawn as inputs).
default_modes ==
    [default |-> [system_prompt |-> <<"default-mode-prompt">>,
                  tools |-> <<"bash", "read", "write", "edit", "grep">>],
     review  |-> [system_prompt |-> <<"review-mode-prompt">>,
                  tools |-> <<"read", "grep">>]]

ModeNames == {"default", "nomode"}

Mode_get(name) ==
    IF name \in DOMAIN default_modes
    THEN [kind |-> "ok", mode |-> default_modes[name]]
    ELSE [kind |-> "raise", error |-> <<"Mode '", name, "' not found">>]

\* ToolRegistry._tools after register_default_tools.
RegisteredTools ==
    {"bash", "edit", "glob", "grep", "list", "lsp-diagnostics", "lsp-hover", "multiedit",
     "patch", "read", "task", "todowrite", "todoread", "webfetch", "write"}

RECURSIVE list_available(_)
list_available(enabled_tools) ==
    IF enabled_tools = <<>> THEN <<>>
    ELSE (IF Head(enabled_tools) \in RegisteredTools THEN <<Head(enabled_tools)>> ELSE <<>>)
         \o list_available(Tail(enabled_tools))

\* ProviderManager._providers after _ensure_providers_registered.
RegisteredProviders == {"openai", "anthropic", "github-copilot"}

\* hasattr(provider, 'chat_streaming'): only AnthropicProvider defines it.
HasChatStreaming(provider_id) == provider_id = "anthropic"

ToolCall(id, name, arguments) == [id |-> id, name |-> name, arguments |-> arguments]

\* ToolRegistry.execute_tool; `outcome` is what tool.execute does when it runs.
execute_tool(tool_id, arguments, outcome) ==
    IF tool_id \notin RegisteredTools
    THEN [kind |-> "raise", executed |-> FALSE, error |-> <<"Tool '", tool_id, "' not found">>]
    ELSE IF arguments # "valid"
    THEN [kind |-> "raise", executed |-> FALSE,
          error |-> <<"Invalid arguments for tool '", tool_id, "': ">> \o <<"validation error">>]
    ELSE IF outcome.kind = "raise"
    THEN [kind |-> "result", executed |-> TRUE, is_error |-> TRUE,
          output |-> <<"Error executing ", tool_id, ": ">> \o outcome.error]
    ELSE [kind |-> "result", executed |-> TRUE, is_error |-> FALSE, output |-> outcome.output]

-----------------------------------------------------------------------------
(* Inputs drawn by the environment *)

SessionId == "s1"

UserTexts == { <<"h", "i">> }

\* SystemPrompt.provider / environment / custom results, before the mode prompt.
SystemSources ==
    { << <<"provider-prompt">>, <<"env">> >>,
      << <<>>, <<"env">>, <<"AGENTS.md">> >> }

ProviderIds == {"anthropic", "openai", "nosuch"}

ToolCallLists ==
    { << ToolCall("c1", "read", "valid") >>,
      << ToolCall("c1", "nosuch", "valid"), ToolCall("c2", "read", "valid") >>,
      << ToolCall("c1", "bash", "invalid") >> }

ProviderChunk(type, content, tool_calls, usage) ==
    [type |-> type, content |-> content, tool_calls |-> tool_calls, usage |-> usage]

\* Chunks a provider's chat_streaming may yield.
ProviderChunks ==
    { ProviderChunk("content", <<"Hello ">>, <<>>, NoUsage),
      ProviderChunk("content", <<"world">>, <<>>, NoUsage),
      ProviderChunk("tool_calls", <<>>, << ToolCall("c1", "read", "valid") >>, NoUsage),
      ProviderChunk("complete", <<>>, <<>>, Usage(3)),
      ProviderChunk("error", <<"Anthropic streaming error: ", "boom">>, <<>>, NoUsage) }

\* ChatResponse values a provider's chat may return.
ChatResponses ==
    [content : { <<>>, <<"ok">>, Repeat("x", chunk_size + 5) },
     tool_calls : ToolCallLists \cup { <<>> },
     usage : { NoUsage, Usage(3) }]

NoResponse == [content |-> <<>>, tool_calls |-> <<>>, usage |-> NoUsage]

ProviderErrors == { <<"transport error">> }

ToolOutcomes ==
    { [kind |-> "ok", output |-> <<"<file>", "data", "</file>">>, error |-> <<>>],
      [kind |-> "raise", output |-> <<>>, error |-> <<"File not found: ", "/does/not/exist">>] }

-----------------------------------------------------------------------------
(* Session store: sessions/<id>/info.json and messages/<message-id>.json *)

MaxTs == 2
MsgIds == {"m1", "m2"}
MsgRoles == {"user", "assistant"}
MsgTexts == { <<"h", "i">> }

\* Texts for runs of the store alone: a short one, one that starts with a
\* blank, and one longer than the title.
StoreTexts == { <<"h", "i">>, <<" ", "y", "o">>, Repeat("a", TitleLen + 1) }

\* Where a process can die inside Session.create and Session.add_message:
\* after a mkdir or a completed write, or inside a "with open(..., 'w')"
\* block, when the file is truncated or partly written.
CreateCrashPoints == {"mkdir", "info_open"}
AddCrashPoints == {"message_open", "message_written", "info_open"}

Message(id, role, text, timestamp) ==
    [id |-> id, role |-> role, text |-> text, timestamp |-> timestamp]

\* No file messages/<id>.json.
NoMsg == Message(None, None, <<>>, 0)

\* A file messages/<id>.json that json.load rejects.
CorruptMsg == Message(None, "corrupt", <<>>, 0)

\* exists: the session directory; file: info.json ("absent", "valid", or
\* "corrupt" when json.load rejects it).
NoInfo ==
    [exists |-> FALSE, file |-> "absent", title |-> <<>>, message_count |-> 0, mode |-> None]

SessionInfo(mode) ==
    [exists |-> TRUE, file |-> "valid", title |-> <<>>, message_count |-> 0, mode |-> mode]

\* Session.get: None unless info.json is there and parses.
Session_get(inf) == IF inf.file = "valid" THEN inf ELSE NoInfo

StoredIds(st) == {id \in DOMAIN st : st[id] # NoMsg}

\* messages_dir.glob("*.json") and the loading loop: the files in an order left
\* to the filesystem, those that do not parse skipped.
glob_messages(st) ==
    LET ids == {id \in StoredIds(st) : st[id] # CorruptMsg}
    IN  { [k \in DOMAIN order |-> st[order[k]]] :
            order \in { o \in [1..Cardinality(ids) -> ids] :
                          \A i, j \in DOMAIN o : i # j => o[i] # o[j] } }

\* messages.sort(key=lambda m: m.timestamp): a stable sort.
sort_by_timestamp_reversed(ms) ==
    LET before(j, i) == \/ ms[j].timestamp > ms[i].timestamp
                        \/ ms[j].timestamp = ms[i].timestamp /\ j < i
        rank(i) == Cardinality({j \in DOMAIN ms : before(j, i)}) + 1
    IN  [k \in DOMAIN ms |-> ms[CHOOSE i \in DOMAIN ms : rank(i) = k]]

sort_by_timestamp(ms) ==
    LET before(j, i) == \/ ms[j].timestamp < ms[i].timestamp
                        \/ ms[j].timestamp = ms[i].timestamp /\ j < i
        rank(i) == Cardinality({j \in DOMAIN ms : before(j, i)}) + 1
    IN  [k \in DOMAIN ms |-> ms[CHOOSE i \in DOMAIN ms : rank(i) = k]]

\* get_messages: every listing it can return for the files st.
get_messages(st) == { sort_by_timestamp(ms) : ms \in glob_messages(st) }

\* _update_session_info, given the listing it read: returns at once when
\* Session.get gives None, else rewrites info.json.
update_session_info(inf, messages) ==
    LET text == IF messages = <<>> THEN <<>> ELSE messages[1].text
        title == Strip(Take(text, TitleLen))
                 \o (IF Len(text) > TitleLen THEN <<"...">> ELSE <<>>)
    IN  IF Session_get(inf) = NoInfo THEN inf
        ELSE [inf EXCEPT !.message_count = Len(messages),
                         !.title = IF inf.title = <<>> /\ messages # <<>> /\ text # <<>>
                                   THEN title ELSE @]

-----------------------------------------------------------------------------
(* Credential store: auth.json, and the Copilot token it caches *)

AuthProviderIds == {"github-copilot", "anthropic"}

OAuthInfo(refresh, access, expires) ==
    [type |-> "oauth", refresh |-> refresh, access |-> access, expires |-> expires]

ApiKeyInfo(key) == [type |-> "api", key |-> key]

\* None where a credential is expected; no entry for a provider in the file.
NoCred == [type |-> "none"]

\* auth_info.model_dump(): the dictionary of the model's fields.
model_dump(auth_info) ==
    IF auth_info.type = "oauth"
    THEN [type |-> auth_info.type, refresh |-> auth_info.refresh,
          access |-> auth_info.access, expires |-> auth_info.expires]
    ELSE [type |-> auth_info.type, key |-> auth_info.key]

\* The credential file: absent, a JSON object (one entry or none per provider
\* id), or content json.load rejects.
NoAuthFile == [kind |-> "absent", data |-> [p \in AuthProviderIds |-> NoCred]]

CorruptAuthFile == [kind |-> "corrupt", data |-> [p \in AuthProviderIds |-> NoCred]]

AuthFile(data) == [kind |-> "json", data |-> data]

\* Auth.get
Auth_get(file, provider_id) ==
    IF file.kind = "absent" THEN NoCred
    ELSE IF file.kind = "corrupt" THEN NoCred
    ELSE LET provider_data == file.data[provider_id]
         IN  IF provider_data = NoCred THEN NoCred
             ELSE IF provider_data.type = "oauth"
             THEN OAuthInfo(provider_data.refresh, provider_data.access,
                            provider_data.expires)
             ELSE ApiKeyInfo(provider_data.key)

\* Auth.set: the file it leaves, and whether it raised.
Auth_set_fresh(file, provider_id, auth_info) ==
    IF file.kind = "corrupt" THEN [raised |-> TRUE, file |-> file]
    ELSE [raised |-> FALSE,
          file |-> AuthFile([NoAuthFile.data EXCEPT ![provider_id] = model_dump(auth_info)])]

Auth_set(file, provider_id, auth_info) ==
    IF file.kind = "corrupt" THEN [raised |-> TRUE, file |-> file]
    ELSE [raised |-> FALSE,
          file |-> AuthFile([file.data EXCEPT ![provider_id] = model_dump(auth_info)])]

\* Auth.remove: the file it leaves, and whether it raised.
Auth_remove(file, provider_id) ==
    IF file.kind = "absent" THEN [raised |-> FALSE, file |-> file]
    ELSE IF file.kind = "corrupt" THEN [raised |-> TRUE, file |-> file]
    ELSE IF file.data[provider_id] # NoCred
    THEN [raised |-> FALSE, file |-> AuthFile([file.data EXCEPT ![provider_id] = NoCred])]
    ELSE [raised |-> FALSE, file |-> file]

NoAuthOp == [op |-> "none", provider_id |-> None, auth_info |-> NoCred, raised |-> FALSE]

\* GitHubCopilotAuth.access multiplies expires_at by this ("Convert to
\* milliseconds").
MsPerSecond == 1000

\* "Check if we have a valid access token and don't need to refresh"
use_cached_ignoring_expiry(oauth_info, current_time, force_refresh) ==
    ~force_refresh /\ oauth_info.access # "" 

use_cached(oauth_info, current_time, force_refresh) ==
    ~force_refresh /\ oauth_info.access # "" /\ oauth_info.expires > current_time

\* GitHubCopilotAuth.access(refresh), given what the token endpoint answered:
\* None on a non-success status, else the AccessResult.
AccessResult_blank_on_failure(refresh, resp) ==
    IF ~resp.is_success THEN OAuthInfo("", "", 0)
    ELSE OAuthInfo(refresh, resp.token, resp.expires_at * MsPerSecond)

AccessResult(refresh, resp) ==
    IF ~resp.is_success THEN NoCred
    ELSE OAuthInfo(refresh, resp.token, resp.expires_at * MsPerSecond)

\* A get_access_token call: where it is, its argument, the clock it read, the
\* credential it read, the requests it has sent to the token endpoint, what the
\* endpoint answered ("none", "success", "failure" or "raised"), what the call
\* returned, and whether an earlier call had its refresh fail.
NoTokenCall ==
    [pc |-> "none", force_refresh |-> FALSE, current_time |-> 0, auth_info |-> NoCred,
     http_calls |-> 0, response |-> "none", result |-> None, failed_before |-> FALSE]

\* Credentials given to Auth.set: what complete_device_flow stores after login
\* (no access token yet), a credential with a cached token, one whose token was
\* cleared, and an API key.
AuthInfos ==
    { OAuthInfo("gho_1", "", 0), OAuthInfo("gho_1", "tid_1", 1000),
      OAuthInfo("gho_1", "", 2000), ApiKeyInfo("sk_1") }

\* Readings of the clock in milliseconds: before, at and after expiry 1000.
ClockReadings == {500, 1000, 1500}

\* Answers of the token endpoint: a token valid until second 2, a non-success
\* status, and a failed request (client.get raises).
TokenResponses ==
    { [raises |-> FALSE, is_success |-> TRUE, token |-> "tid_2", expires_at |-> 2],
      [raises |-> FALSE, is_success |-> FALSE, token |-> "", expires_at |-> 0],
      [raises |-> TRUE, is_success |-> FALSE, token |-> "", expires_at |-> 0] }

-----------------------------------------------------------------------------
(* Text operations of the tools; file contents are sequences of characters *)

Min(a, b) == IF a < b THEN a ELSE b

Max(a, b) == IF a > b THEN a ELSE b

\* s[a:b] for integers a and b of either sign.
PySlice(s, a, b) ==
    LET lo == IF a < 0 THEN Max(a + Len(s), 0) ELSE Min(a, Len(s))
        hi == IF b < 0 THEN Max(b + Len(s), 0) ELSE Min(b, Len(s))
    IN  SubSeq(s, lo + 1, hi)

MatchAt(s, sub, i) == i + Len(sub) <= Len(s) /\ SubSeq(s, i + 1, i + Len(sub)) = sub

\* s.find(sub) and s.rfind(sub): 0-based, -1 when absent.
Find(s, sub) ==
    IF \E i \in 0..Len(s) : MatchAt(s, sub, i)
    THEN CHOOSE i \in 0..Len(s) :
            MatchAt(s, sub, i) /\ \A j \in 0..(i - 1) : ~MatchAt(s, sub, j)
    ELSE 0 - 1

RFind(s, sub) ==
    IF \E i \in 0..Len(s) : MatchAt(s, sub, i)
    THEN CHOOSE i \in 0..Len(s) :
            MatchAt(s, sub, i) /\ \A j \in (i + 1)..Len(s) : ~MatchAt(s, sub, j)
    ELSE 0 - 1

\* s.replace(sub, new): every non-overlapping occurrence, left to right; with
\* an empty sub, new goes before every character and at the end.
RECURSIVE Replace(_, _, _)
Replace(s, sub, new) ==
    IF sub = <<>>
    THEN IF s = <<>> THEN new ELSE new \o <<Head(s)>> \o Replace(Tail(s), sub, new)
    ELSE IF Find(s, sub) < 0 THEN s
    ELSE SubSeq(s, 1, Find(s, sub)) \o new
         \o Replace(SubSeq(s, Find(s, sub) + Len(sub) + 1, Len(s)), sub, new)

\* s.split('\n')
RECURSIVE SplitLines(_)
SplitLines(s) ==
    IF Find(s, <<"\n">>) < 0 THEN <<s>>
    ELSE <<SubSeq(s, 1, Find(s, <<"\n">>))>>
         \o SplitLines(SubSeq(s, Find(s, <<"\n">>) + 2, Len(s)))

\* The length of the first word of a text that starts with one.
word_len(t) ==
    IF \E i \in DOMAIN t : t[i] \in Whitespace
    THEN (CHOOSE i \in DOMAIN t :
             t[i] \in Whitespace /\ \A j \in 1..(i - 1) : t[j] \notin Whitespace) - 1
    ELSE Len(t)

\* s.split(): the maximal runs of non-whitespace characters.
RECURSIVE SplitWords(_)
RECURSIVE words_of(_)
words_of(t) ==
    IF t = <<>> THEN <<>>
    ELSE <<SubSeq(t, 1, word_len(t))>> \o SplitWords(SubSeq(t, word_len(t) + 1, Len(t)))

SplitWords(s) == words_of(LStrip(s))

\* sum(len(line) + 1 for line in lines)
RECURSIVE SumLenPlusOne(_)
SumLenPlusOne(lines) ==
    IF lines = <<>> THEN 0 ELSE Len(Head(lines)) + 1 + SumLenPlusOne(Tail(lines))

\* range(n) as a sequence; empty when n <= 0.
Range(n) == [k \in 1..n |-> k - 1]

-----------------------------------------------------------------------------
(* EditTool._replace_text and its four replacers *)

\* _simple_replacer
simple_replacer(content, find) == <<find>>

\* if search_lines[-1] == '': search_lines.pop()
pop_empty(lines) ==
    IF lines[Len(lines)] = <<>> THEN SubSeq(lines, 1, Len(lines) - 1) ELSE lines

\* Whether the lines at i equal the searched lines once both are trimmed.
line_trimmed_matches(original_lines, search_lines, i) ==
    \A j \in 0..(Len(search_lines) - 1) :
        Strip(original_lines[i + j + 1]) = Strip(search_lines[j + 1])

\* content[start_index:end_index - 1] for the block of lines at i.
line_trimmed_block(content, original_lines, search_lines, i) ==
    PySlice(content,
            SumLenPlusOne(SubSeq(original_lines, 1, i)),
            SumLenPlusOne(SubSeq(original_lines, 1, i + Len(search_lines))) - 1)

line_trimmed_blocks(content, original_lines, search_lines, hits) ==
    [k \in DOMAIN hits |-> line_trimmed_block(content, original_lines, search_lines, hits[k])]

line_trimmed_hits(original_lines, search_lines) ==
    LET matches(i) == line_trimmed_matches(original_lines, search_lines, i)
    IN  SelectSeq(Range(Len(original_lines) - Len(search_lines) + 1), matches)

line_trimmed_lines(content, original_lines, search_lines) ==
    line_trimmed_blocks(content, original_lines, search_lines,
                        line_trimmed_hits(original_lines, search_lines))

\* _line_trimmed_replacer
line_trimmed_replacer(content, find) ==
    line_trimmed_lines(content, SplitLines(content), pop_empty(SplitLines(find)))

\* normalize_whitespace
normalize_whitespace(text) == Join(<<" ">>, SplitWords(text))

whitespace_normalized_lines(lines, normalized_find) ==
    LET same(line) == normalize_whitespace(line) = normalized_find
    IN  SelectSeq(lines, same)

\* _whitespace_normalized_replacer
whitespace_normalized_replacer(content, find) ==
    whitespace_normalized_lines(SplitLines(content), normalize_whitespace(find))

\* len(line) - len(line.lstrip())
indent_of(line) == Len(line) - Len(LStrip(line))

\* min(...) over the lines that are not blank; there is one.
min_indent(lines) ==
    CHOOSE m \in 0..Len(Join(<<>>, lines)) :
        /\ \E k \in DOMAIN lines : Strip(lines[k]) # <<>> /\ indent_of(lines[k]) = m
        /\ \A k \in DOMAIN lines : Strip(lines[k]) # <<>> => m <= indent_of(lines[k])

dedent(lines, indent) ==
    [k \in DOMAIN lines |->
        IF Strip(lines[k]) = <<>> THEN lines[k]
        ELSE SubSeq(lines[k], indent + 1, Len(lines[k]))]

remove_indentation_of(text, lines) ==
    IF \A k \in DOMAIN lines : Strip(lines[k]) = <<>> THEN text
    ELSE Join(<<"\n">>, dedent(lines, min_indent(lines)))

\* remove_indentation
remove_indentation(text) == remove_indentation_of(text, SplitLines(text))

\* '\n'.join(content_lines[i:i + len(find_lines)])
indentation_block(content_lines, find_lines, i) ==
    Join(<<"\n">>, SubSeq(content_lines, i + 1, i + Len(find_lines)))

indentation_blocks(content_lines, find_lines, hits) ==
    [k \in DOMAIN hits |-> indentation_block(content_lines, find_lines, hits[k])]

indentation_hits(content_lines, find_lines, normalized_find) ==
    LET same(i) ==
            remove_indentation(indentation_block(content_lines, find_lines, i))
                = normalized_find
    IN  SelectSeq(Range(Len(content_lines) - Len(find_lines) + 1), same)

indentation_lines(content_lines, find_lines, normalized_find) ==
    indentation_blocks(content_lines, find_lines,
                       indentation_hits(content_lines, find_lines, normalized_find))

\* _indentation_flexible_replacer
indentation_flexible_replacer(content, find) ==
    indentation_lines(SplitLines(content), SplitLines(find), remove_indentation(find))

\* The search texts in the order the loops of _replace_text meet them.
search_texts(content, old_string) ==
    simple_replacer(content, old_string)
    \o line_trimmed_replacer(content, old_string)
    \o whitespace_normalized_replacer(content, old_string)
    \o indentation_flexible_replacer(content, old_string)

\* A search text the loop does not skip: it is in the content, and when not
\* replacing all, at one place only.
usable(content, search_text, replace_all) ==
    /\ Find(content, search_text) >= 0
    /\ replace_all \/ Find(content, search_text) = RFind(content, search_text)

\* The position in texts of the first search text the loop does not skip; 0
\* when it skips them all.
first_usable(content, texts, replace_all) ==
    IF \E k \in DOMAIN texts : usable(content, texts[k], replace_all)
    THEN CHOOSE k \in DOMAIN texts :
            /\ usable(content, texts[k], replace_all)
            /\ \A h \in 1..(k - 1) : ~usable(content, texts[h], replace_all)
    ELSE 0

\* content[:index] + new_string + content[index + len(search_text):]
splice(content, search_text, new_string, index) ==
    SubSeq(content, 1, index) \o new_string
    \o SubSeq(content, index + Len(search_text) + 1, Len(content))

replace_with(content, search_text, new_string, replace_all) ==
    IF replace_all THEN Replace(content, search_text, new_string)
    ELSE splice(content, search_text, new_string, Find(content, search_text))

replace_first(content, new_string, replace_all, texts, first) ==
    IF first = 0
    THEN [kind |-> "raise", content |-> content,
          error |-> <<"old_string not found in content or was found multiple times">>]
    ELSE [kind |-> "ok", error |-> <<>>,
          content |-> replace_with(content, texts[first], new_string, replace_all)]

replace_among(content, new_string, replace_all, texts) ==
    replace_first(content, new_string, replace_all, texts,
                  first_usable(content, texts, replace_all))

\* _replace_text: the new content, or the ValueError it raises.
replace_text(content, old_string, new_string, replace_all) ==
    IF old_string = new_string
    THEN [kind |-> "raise", content |-> content,
          error |-> <<"old_string and new_string must be different">>]
    ELSE replace_among(content, new_string, replace_all, search_texts(content, old_string))

-----------------------------------------------------------------------------
(* The file tools: paths, files and the execute methods of edit, multiedit,
   write and read *)

MaxContentLen == 4
MaxFindLen == 3
MaxNewLen == 1
MaxEdits == 2

MAX_READ_SIZE == 250 * 1024
DEFAULT_READ_LIMIT == 2000
MAX_LINE_LENGTH == 2000

\* An Optional[int] that was not given.
NoneInt == 0 - 1

Chars == {"a", " ", "\n"}

Strings(n) == UNION {[1..k -> Chars] : k \in 0..n}

\* A path string: absolute or not, and its components.
Path(abs, parts) == [abs |-> abs, parts |-> parts]

EmptyPath == Path(FALSE, <<>>)

\* app_info.path["cwd"] and app_info.path["root"]: the workspace.
cwd == <<"ws">>

\* os.path.normpath on the components of an absolute path.
RECURSIVE normpath(_, _)
normpath(done, rest) ==
    IF rest = <<>> THEN done
    ELSE normpath(IF Head(rest) = "." THEN done
                  ELSE IF Head(rest) = ".."
                  THEN SubSeq(done, 1, Len(done) - 1)
                  ELSE Append(done, Head(rest)),
                  Tail(rest))

\* The path resolution at the top of the three execute methods.
resolve(file_path) ==
    normpath(<<>>, IF file_path.abs THEN file_path.parts ELSE cwd \o file_path.parts)

InsideRoot(path) == Len(path) >= Len(cwd) /\ SubSeq(path, 1, Len(cwd)) = cwd

\* The file system: two directories, and three places where a file can be.
Directories == {<<>>, cwd}

FilePaths == {<<"ws", "f">>, <<"ws", "p.png">>, <<"o">>}

NoFile == [exists |-> FALSE, content |-> <<>>, size |-> 0]

File(content) == [exists |-> TRUE, content |-> content, size |-> Len(content)]

\* A file beyond the size limit of read; the model keeps its size only.
BigFile == [exists |-> TRUE, content |-> <<>>, size |-> MAX_READ_SIZE + 1]

NoFiles == [p \in FilePaths |-> NoFile]

isdir(path) == path \in Directories

exists(files, path) == isdir(path) \/ (path \in FilePaths /\ files[path].exists)

Access(op, path) == [op |-> op, path |-> path]

\* What an execute method hands back: a ToolResult (error-shaped when
\* metadata.error is set) or an exception, the files afterwards, and the file
\* accesses it made.
Returned(files, output, accessed) ==
    [kind |-> "result", error |-> "None", output |-> output, files |-> files,
     accessed |-> accessed]

ErrorResult(files, error, accessed) ==
    [kind |-> "error_result", error |-> error, output |-> <<"<error>">>, files |-> files,
     accessed |-> accessed]

Raised(files, error, accessed) ==
    [kind |-> "raise", error |-> error, output |-> <<>>, files |-> files,
     accessed |-> accessed]

EditParameters(file_path, old_string, new_string, replace_all) ==
    [file_path |-> file_path, old_string |-> old_string, new_string |-> new_string,
     replace_all |-> replace_all]

\* The end of EditTool.execute: the replacement, and the write when it is made.
edit_file(files, file_path, replaced) ==
    IF replaced.kind = "raise"
    THEN Raised(files, "ValueError", {Access("read", file_path)})
    ELSE Returned([files EXCEPT ![file_path] = File(replaced.content)],
                  <<"Edited file">>,
                  {Access("read", file_path), Access("write", file_path)})

\* EditTool.execute once the path is resolved.
edit_resolved(files, args, file_path) ==
    IF args.old_string = <<>>
    THEN IF isdir(file_path)
         THEN Raised(files, "IsADirectoryError", {})
         ELSE Returned([files EXCEPT ![file_path] = File(args.new_string)],
                       <<"Created new file">>, {Access("write", file_path)})
    ELSE IF ~exists(files, file_path)
    THEN Raised(files, "FileNotFoundError", {})
    ELSE IF isdir(file_path)
    THEN Raised(files, "ValueError", {})
    ELSE edit_file(files, file_path,
                   replace_text(files[file_path].content, args.old_string,
                                args.new_string, args.replace_all))

\* EditTool.execute
edit_execute(files, args) ==
    IF args.file_path = EmptyPath
    THEN Raised(files, "ValueError", {})
    ELSE IF args.old_string = args.new_string
    THEN Raised(files, "ValueError", {})
    ELSE edit_resolved(files, args, resolve(args.file_path))

\* The attributes of an EditParameters object.
EditParametersFields == {"file_path", "old_string", "new_string", "replace_all"}

\* The attributes MultiEditTool.execute reads from each edit, and the keywords
\* it passes to EditParameters.
multiedit_reads == {"oldString", "newString"}

multiedit_keywords == {"filePath", "oldString", "newString", "replaceAll"}

\* The loop of MultiEditTool.execute over the edits, once the attributes of an
\* edit could be read: each edit goes to EditTool.execute, an exception ends it.
RECURSIVE multiedit_loop(_, _, _, _)
RECURSIVE multiedit_step(_, _, _, _)
multiedit_step(filePath, edits, accessed, result) ==
    IF result.kind = "raise"
    THEN Raised(result.files, result.error, accessed \cup result.accessed)
    ELSE IF Len(edits) = 1
    THEN Returned(result.files, result.output, accessed \cup result.accessed)
    ELSE multiedit_loop(result.files, filePath, Tail(edits), accessed \cup result.accessed)

multiedit_loop(files, filePath, edits, accessed) ==
    IF edits = <<>> THEN Returned(files, <<>>, accessed)
    ELSE multiedit_step(filePath, edits, accessed,
                        edit_execute(files,
                                     EditParameters(filePath, Head(edits).old_string,
                                                    Head(edits).new_string,
                                                    IF "replaceAll" \in EditParametersFields
                                                    THEN Head(edits).replace_all
                                                    ELSE FALSE)))

\* MultiEditTool.execute
multiedit_execute(files, args) ==
    IF args.edits = <<>> THEN Returned(files, <<>>, {})
    ELSE IF ~(multiedit_reads \subseteq EditParametersFields)
    THEN Raised(files, "AttributeError", {})
    ELSE IF ~(multiedit_keywords \subseteq EditParametersFields)
    THEN Raised(files, "ValidationError", {})
    ELSE multiedit_loop(files, args.filePath, args.edits, {})

\* WriteTool.execute once the path is resolved.
write_resolved(files, args, file_path) ==
    IF isdir(file_path)
    THEN ErrorResult(files, "IsADirectoryError", {})
    ELSE Returned([files EXCEPT ![file_path] = File(args.content)],
                  IF exists(files, file_path) THEN <<"Updated file">>
                  ELSE <<"Created file">>,
                  {Access("write", file_path)})

\* WriteTool.execute
write_execute(files, args) == write_resolved(files, args, resolve(args.file_path))

\* The decimal digits of a natural number.
RECURSIVE Digits(_)
Digits(n) ==
    LET d == <<"0", "1", "2", "3", "4", "5", "6", "7", "8", "9">>
    IN  IF n < 10 THEN <<d[n + 1]>> ELSE Digits(n \div 10) \o <<d[(n % 10) + 1]>>

\* f"{line_num:5d}| {line}"
format_line(line_num, line) ==
    Repeat(" ", 5 - Len(Digits(line_num))) \o Digits(line_num) \o <<"|", " ">> \o line

\* The truncation of a long line.
truncate_line(line) ==
    IF Len(line) > MAX_LINE_LENGTH
    THEN SubSeq(line, 1, MAX_LINE_LENGTH) \o <<"...">>
    ELSE line

\* lines[offset:offset + limit], taking one line too many.
selected_lines_one_more(lines, offset, limit) == PySlice(lines, offset, offset + limit + 1)

\* lines[offset:offset + limit]
selected_lines(lines, offset, limit) == PySlice(lines, offset, offset + limit)

ImageNames == {"p.png"}

\* ReadTool._is_image_file, by the name's extension.
is_image_file(path) == path # <<>> /\ path[Len(path)] \in ImageNames

\* The lines of the output: number and text of each selected line.
formatted_lines(selected, offset) ==
    [i \in DOMAIN selected |-> format_line(offset + i, truncate_line(selected[i]))]

\* The output of ReadTool.execute for the lines selected.
read_output(lines, selected, offset) ==
    <<"<file>", "\n">> \o Join(<<"\n">>, formatted_lines(selected, offset))
    \o (IF Len(lines) > offset + Len(selected)
        THEN <<"\n", "\n", "(File has more lines)">> ELSE <<>>)
    \o <<"\n", "</file>">>

read_lines(lines, offset, limit) ==
    read_output(lines, selected_lines(lines, offset, limit), offset)

\* ReadTool.execute once the path is resolved.
read_resolved(files, args, file_path) ==
    IF ~exists(files, file_path)
    THEN Raised(files, "FileNotFoundError", {})
    ELSE IF isdir(file_path)
    THEN Raised(files, "IsADirectoryError", {})
    ELSE IF files[file_path].size > MAX_READ_SIZE
    THEN Raised(files, "ValueError", {})
    ELSE IF is_image_file(file_path)
    THEN Raised(files, "ValueError", {})
    ELSE Returned(files,
                  read_lines(SplitLines(files[file_path].content),
                             IF args.offset \in {NoneInt, 0} THEN 0 ELSE args.offset,
                             IF args.limit \in {NoneInt, 0} THEN DEFAULT_READ_LIMIT
                             ELSE args.limit),
                  {Access("read", file_path)})

\* ReadTool.execute
read_execute(files, args) == read_resolved(files, args, resolve(args.file_path))

-----------------------------------------------------------------------------
(* The todo tools and the bash tool *)

TodoSessions == {"s1", "s2"}

\* Todo lists, by the ids of their items.
TodoLists == {<<>>, <<"t1">>, <<"t1", "t2">>}

\* The dict kept under the key "todo-tool": a list per session id, or no entry.
NoTodos == [present |-> FALSE, todos |-> <<>>]

Todos(todos) == [present |-> TRUE, todos |-> todos]

\* The state dict, and the list each session last asked to have written.
NoTodoState ==
    [state |-> [s \in TodoSessions |-> NoTodos], written |-> [s \in TodoSessions |-> NoTodos]]

\* The class attributes of App.
AppAttributes ==
    {"_context", "_log", "use", "info", "provide", "state", "initialize", "_directory_name"}

\* TodoWriteTool.execute
todowrite_execute(state, session_id, todos) ==
    IF "get_state" \notin AppAttributes
    THEN [kind |-> "raise", error |-> "AttributeError", output |-> <<>>, state |-> state]
    ELSE [kind |-> "result", error |-> "None", output |-> todos,
          state |-> [state EXCEPT ![session_id] = Todos(todos)]]

\* TodoReadTool.execute
todoread_execute(state, session_id) ==
    IF "get_state" \notin AppAttributes
    THEN [kind |-> "raise", error |-> "AttributeError", output |-> <<>>, state |-> state]
    ELSE [kind |-> "result", error |-> "None", output |-> state[session_id].todos,
          state |-> state]

DEFAULT_TIMEOUT == 60
MAX_TIMEOUT == 600

\* timeout = min(args.timeout or DEFAULT_TIMEOUT, MAX_TIMEOUT)
effective_timeout(timeout) ==
    Min(IF timeout \in {NoneInt, 0} THEN DEFAULT_TIMEOUT ELSE timeout, MAX_TIMEOUT)

\* The timeouts BashParameters accepts (ge=0, le=MAX_TIMEOUT), and none.
BashTimeouts == {NoneInt, 0, 1, DEFAULT_TIMEOUT + 1, MAX_TIMEOUT}

-----------------------------------------------------------------------------
(* Tool calls *)

NoArgs == [none |-> TRUE]

\* No tool call under way.
NoToolCall ==
    [pc |-> "none", tool |-> "none", args |-> NoArgs, before |-> NoFiles, kind |-> "none",
     error |-> "None", output |-> <<>>, accessed |-> {}, timeout |-> NoneInt,
     child |-> "none", timed_out |-> FALSE]

\* A call handed to a tool's execute method, with the files as they are then.
Pending(tool_id, args, files) ==
    [NoToolCall EXCEPT !.pc = "pending", !.tool = tool_id, !.args = args, !.before = files]

\* The call after execute handed back `result`.
Done(call, result) ==
    [call EXCEPT !.pc = "done", !.kind = result.kind, !.error = result.error,
                 !.output = result.output, !.accessed = result.accessed]

WorkFile == <<"ws", "f">>

OutsideFile == <<"o">>

Files(content) == [NoFiles EXCEPT ![WorkFile] = File(content), ![OutsideFile] = File(<<"a">>)]

\* file_path arguments: relative and absolute, inside and outside the workspace,
\* a directory, a missing file, and the empty string.
PathInputs ==
    { Path(FALSE, <<"f">>), Path(FALSE, <<"..", "o">>), Path(FALSE, <<".", "f">>),
      Path(TRUE, <<"ws", "f">>), Path(TRUE, <<"o">>), Path(FALSE, <<".">>),
      Path(FALSE, <<"p.png">>), EmptyPath }

EditCalls ==
    { Pending("edit", EditParameters(Path(FALSE, <<"f">>), old, new, ra), Files(c)) :
        c \in Strings(MaxContentLen), old \in Strings(MaxFindLen),
        new \in Strings(MaxNewLen), ra \in BOOLEAN }
    \cup { Pending("edit", EditParameters(path, old, <<" ">>, FALSE), Files(<<"a">>)) :
             path \in PathInputs, old \in {<<>>, <<"a">>, <<"a", "a">>} }

EditLists ==
    UNION {[1..k -> { EditParameters(EmptyPath, old, new, FALSE) :
                        old \in Strings(1), new \in Strings(1) }] : k \in 0..MaxEdits}

MultiEditCalls ==
    { Pending("multiedit", [filePath |-> Path(FALSE, <<"f">>), edits |-> edits], Files(c)) :
        c \in Strings(2), edits \in EditLists }

WriteCalls ==
    { Pending("write", [file_path |-> path, content |-> content], files) :
        path \in PathInputs \ {EmptyPath}, content \in Strings(1),
        files \in {NoFiles, Files(<<"a">>)} }

\* One line longer than MAX_LINE_LENGTH.
LongLine == [i \in 1..(MAX_LINE_LENGTH + 1) |-> "a"]

ReadCalls ==
    { Pending("read", [file_path |-> Path(FALSE, <<"f">>), offset |-> offset, limit |-> limit],
              Files(c)) :
        c \in Strings(MaxContentLen),
        offset \in {NoneInt} \cup 0..2, limit \in {NoneInt} \cup 1..2 }
    \cup { Pending("read", [file_path |-> path, offset |-> NoneInt, limit |-> NoneInt],
                   files) :
             path \in PathInputs \ {EmptyPath},
             files \in { Files(<<"a">>), [Files(<<"a">>) EXCEPT ![WorkFile] = BigFile],
                         [Files(<<"a">>) EXCEPT ![<<"ws", "p.png">>] = File(<<"a">>)] } }

\* Reads of a file whose second line is longer than MAX_LINE_LENGTH.
LongReadCalls ==
    { Pending("read", [file_path |-> Path(FALSE, <<"f">>), offset |-> offset,
                       limit |-> NoneInt],
              Files(<<"a", "\n">> \o LongLine)) : offset \in 0..1 }

BashCalls == { Pending("bash", [timeout |-> t], NoFiles) : t \in BashTimeouts }

\* The call is about to be made, on the files it was drawn with.
Called(call, files, pending) == files = call.before /\ pending = call

-----------------------------------------------------------------------------
(* AnthropicProvider.chat_streaming: the generator between the Anthropic event
   stream and the orchestrator *)

MaxUpstreamEvents == 3

\* A run of the generator: where it is, the upstream events it has taken, the
\* chunks it has yielded and its local tool_calls.
NoAnthropicRun == [pc |-> "none", events |-> <<>>, yielded |-> <<>>, tool_calls |-> <<>>]

UpstreamEvent(type, has_text, text, block_type) ==
    [type |-> type, has_text |-> has_text, text |-> text, block_type |-> block_type]

\* Events of the Anthropic stream: text and non-text deltas, the start of a
\* tool_use or text block, message_stop, and events the loop has no branch for.
UpstreamEvents ==
    { UpstreamEvent("content_block_delta", TRUE, <<"Hello">>, None),
      UpstreamEvent("content_block_delta", FALSE, <<>>, None),
      UpstreamEvent("content_block_start", FALSE, <<>>, "tool_use"),
      UpstreamEvent("content_block_start", FALSE, <<>>, "text"),
      UpstreamEvent("message_stop", FALSE, <<>>, None),
      UpstreamEvent("message_delta", FALSE, <<>>, None) }

\* "except Exception as e": the error chunk the generator yields.
anthropic_error(e) ==
    ProviderChunk("error", <<"Anthropic streaming error: ">> \o e, <<>>, NoUsage)

\* Body of "async for chunk in response" for one event: what it yields, the
\* local tool_calls after it, and whether it left the loop.
anthropic_event(tool_calls, chunk) ==
    IF chunk.type = "content_block_delta"
    THEN [yields |-> IF chunk.has_text
                     THEN <<ProviderChunk("content", chunk.text, <<>>, NoUsage)>>
                     ELSE <<>>,
          tool_calls |-> tool_calls, break |-> FALSE]
    ELSE IF chunk.type = "content_block_start"
    THEN [yields |-> <<>>,
          tool_calls |-> IF chunk.block_type = "tool_use"
                         THEN Append(tool_calls, ToolCall("toolu_1", "read", "valid"))
                         ELSE tool_calls,
          break |-> FALSE]
    ELSE IF chunk.type = "message_stop"
    THEN [yields |-> (IF tool_calls # <<>>
                      THEN <<ProviderChunk("tool_calls", <<>>, tool_calls, NoUsage)>>
                      ELSE <<>>)
                     \o <<ProviderChunk("complete", <<>>, <<>>, Usage(0))>>,
          tool_calls |-> tool_calls, break |-> TRUE]
    ELSE [yields |-> <<>>, tool_calls |-> tool_calls, break |-> FALSE]

-----------------------------------------------------------------------------
(* State *)

(* Values of the provider request, the device flow, the event bus and the
   custom modes before anything has happened *)

\* No kwargs built yet.
NoKwargs == [messages |-> <<>>, has_system |-> FALSE, system |-> <<>>, built |-> FALSE]

NoSent == [chosen |-> FALSE, messages |-> <<>>, chat |-> NoKwargs, chat_streaming |-> NoKwargs]

\* A poll_device_flow call: where it is, its argument, what the token poll
\* answered, the credential and clock get_access_token read, and what the call
\* returned.
NoFlow ==
    [pc |-> "none", device_code |-> None, poll_status |-> "none", auth_info |-> NoCred,
     result |-> None]

EventTypes == {"session.updated", "message.created"}

\* EventBus(): no subscribers; no publish call yet.  A publish call: the event
\* type, the position of the list iterator, the handlers subscribed when it
\* began and the handlers it has invoked.
NoBus ==
    [_subscribers |-> [t \in EventTypes |-> <<>>], pc |-> "idle", event_type |-> None,
     i |-> 0, at_begin |-> <<>>, invoked |-> <<>>]

CustomModeNames == {"mine", "review"}

\* No entry in config.modes; no ModeInfo.
NoModeData == [absent |-> TRUE]

NoMode == [name |-> None]

NoGot == [name |-> None, kind |-> "none", mode |-> NoMode]

NoModes ==
    [config |-> [n \in CustomModeNames |-> NoModeData], created |-> NoMode, got |-> NoGot]

-----------------------------------------------------------------------------
VARIABLES
    turn,            \* number of turns started
    pc,              \* position of the _process_streaming task
    request,         \* SessionChatRequest of the turn
    system_sources,  \* what the system prompt assembler read this turn
    sr,              \* the turn's StreamingSessionResponse
    provider_calls,  \* calls made to a provider: method and ChatRequest
    auth_checked,    \* what provider.is_authenticated() answered this turn, if asked
    exc,             \* the exception the task caught this turn, if any
    consumed,        \* provider chunks the orchestrator has taken this turn, in order
    provider_usage,  \* usage the provider reported this turn
    received_calls,  \* tool calls the provider emitted this turn
    response,        \* ChatResponse of the non-streaming fallback
    slice_i,         \* loop variable i of the slicing loop
    tool_i,          \* index of the tool call being executed
    emitted,         \* every chunk enqueued this turn, in order
    execs,           \* tool dispatches: call, chunk positions at begin and end
    cpc,             \* position of the consumer of the response
    delivered,       \* chunks the consumer has received, in order
    chat_acc,        \* locals of Session.chat: content, tool_calls, usage
    chat_result,     \* SessionChatResponse returned by Session.chat
    store,           \* message files of the session
    store0,          \* the message files when the turn started
    info,            \* info.json of the session
    adds,            \* add_message calls so far
    auth_file,       \* the credential file auth.json
    auth_before,     \* the credential file before the last Auth.set or Auth.remove
    auth_op,         \* the last Auth.set or Auth.remove call
    tok,             \* the get_access_token call in progress or last finished
    anth,            \* a run of AnthropicProvider.chat_streaming
    fs,              \* the files the tools see
    tool,            \* the tool call in progress or last finished
    todo_state,      \* App service "todo-tool": todo lists by session id
    sent,            \* a request given to AnthropicProvider and what chat and
                     \* chat_streaming passed to client.messages.create for it
    flow,            \* the poll_device_flow call in progress or last finished
    bus,             \* the EventBus: subscribers by event type, and the publish
                     \* call in progress or last finished
    modes            \* config.modes, the last Mode.create and the last Mode.get

vars ==
    <<turn, pc, request, system_sources, sr, provider_calls, auth_checked, exc, consumed,
      provider_usage, received_calls, response, slice_i, tool_i, emitted, execs, cpc,
      delivered, chat_acc, chat_result, store, store0, info, adds, auth_file, auth_before,
      auth_op, tok, anth, fs, tool, todo_state, sent, flow, bus, modes>>

turn_vars ==
    <<request, system_sources, sr, provider_calls, auth_checked, exc, consumed,
      provider_usage, received_calls, response, slice_i, tool_i, emitted, execs>>

consumer_vars == <<cpc, delivered, chat_acc, chat_result>>

store_vars == <<store, store0, info, adds>>

auth_vars == <<auth_file, auth_before, auth_op, tok>>

provider_vars == <<anth>>

tool_vars == <<fs, tool, todo_state>>

service_vars == <<sent, flow, bus, modes>>

NoRequest == [session_id |-> None, provider_id |-> None, mode |-> None, message_content |-> <<>>]

NoChatAcc == [content |-> <<>>, tool_calls |-> <<>>, usage |-> NoUsage]

NoChatResult == [returned |-> FALSE, content |-> <<>>, tool_calls |-> <<>>, usage |-> NoUsage]

InitProgram ==
    /\ turn = 0
    /\ pc = "idle"
    /\ request = NoRequest
    /\ system_sources = <<>>
    /\ sr = StreamingSessionResponse
    /\ provider_calls = <<>>
    /\ auth_checked = "unchecked"
    /\ exc = <<>>
    /\ consumed = <<>>
    /\ provider_usage = NoUsage
    /\ received_calls = <<>>
    /\ response = NoResponse
    /\ slice_i = 0
    /\ tool_i = 0
    /\ emitted = <<>>
    /\ execs = <<>>
    /\ cpc = "none"
    /\ delivered = <<>>
    /\ chat_acc = NoChatAcc
    /\ chat_result = NoChatResult
    /\ store = [id \in MsgIds |-> NoMsg]
    /\ store0 = [id \in MsgIds |-> NoMsg]
    /\ info = NoInfo
    /\ adds = 0
    /\ auth_file = NoAuthFile
    /\ auth_before = NoAuthFile
    /\ auth_op = NoAuthOp
    /\ tok = NoTokenCall
    /\ anth = NoAnthropicRun
    /\ todo_state = NoTodoState
    /\ sent = NoSent
    /\ flow = NoFlow
    /\ bus = NoBus
    /\ modes = NoModes

Init ==
    /\ InitProgram
    /\ fs = NoFiles
    /\ tool = NoToolCall

\* The tools are functions of their arguments and of the files: a tool call of
\* any kind is about to be made, on files of any content.
ToolInit ==
    /\ InitProgram
    /\ \/ \E call \in EditCalls : Called(call, fs, tool)
       \/ \E call \in MultiEditCalls : Called(call, fs, tool)
       \/ \E call \in WriteCalls : Called(call, fs, tool)
       \/ \E call \in ReadCalls \cup LongReadCalls : Called(call, fs, tool)
       \/ \E call \in BashCalls : Called(call, fs, tool)
       \/ Called(NoToolCall, fs, tool)

\* Chunks appended to the list by a step of the producer from s to t.
NewChunks(s, t) == SubSeq(t._chunks, Len(s._chunks) + 1, Len(t._chunks))

-----------------------------------------------------------------------------
(* Session store operations *)

\* Session.create(mode)
Create(mode) ==
    /\ ~info.exists
    /\ pc = "idle"
    /\ info' = SessionInfo(mode)
    /\ UNCHANGED <<turn, pc, turn_vars, consumer_vars, store, store0, adds, auth_vars, provider_vars, tool_vars, service_vars>>

\* Session.add_message(session_id, message), _update_session_info included.
AddMessage(message) ==
    /\ adds < MaxAdds
    /\ pc = "idle"
    /\ info.exists
    /\ adds' = adds + 1
    /\ store' = [store EXCEPT ![message.id] = message]
    /\ \E messages \in get_messages(store') :
          info' = update_session_info(info, messages)
    /\ UNCHANGED <<turn, pc, turn_vars, consumer_vars, store0, auth_vars, provider_vars, tool_vars, service_vars>>

\* Session.delete(session_id): rmtree of the session directory.
Delete ==
    /\ info.exists
    /\ pc = "idle"
    /\ info' = NoInfo
    /\ store' = [id \in MsgIds |-> NoMsg]
    /\ UNCHANGED <<turn, pc, turn_vars, consumer_vars, store0, adds, auth_vars, provider_vars, tool_vars, service_vars>>

\* Session.create cut short by the death of the process.
CreateCrash(mode, point) ==
    /\ ~info.exists
    /\ pc = "idle"
    /\ info' = IF point = "mkdir" THEN [NoInfo EXCEPT !.exists = TRUE]
               ELSE [NoInfo EXCEPT !.exists = TRUE, !.file = "corrupt"]
    /\ UNCHANGED <<turn, pc, turn_vars, consumer_vars, store, store0, adds, auth_vars, provider_vars, tool_vars, service_vars>>

\* Session.add_message cut short by the death of the process.
AddMessageCrash(message, point) ==
    /\ adds < MaxAdds
    /\ pc = "idle"
    /\ info.exists
    /\ adds' = adds + 1
    /\ IF point = "message_open"
       THEN /\ store' = [store EXCEPT ![message.id] = CorruptMsg]
            /\ UNCHANGED info
       ELSE IF point = "message_written"
       THEN /\ store' = [store EXCEPT ![message.id] = message]
            /\ UNCHANGED info
       ELSE /\ Session_get(info) # NoInfo
            /\ store' = [store EXCEPT ![message.id] = message]
            /\ info' = [NoInfo EXCEPT !.exists = TRUE, !.file = "corrupt"]
    /\ UNCHANGED <<turn, pc, turn_vars, consumer_vars, store0, auth_vars, provider_vars, tool_vars, service_vars>>

-----------------------------------------------------------------------------
(* Credential store operations and GitHubCopilotAuthManager.get_access_token *)

\* Auth.set(provider_id, auth_info)
AuthSet(provider_id, auth_info) ==
    /\ LET r == Auth_set(auth_file, provider_id, auth_info)
       IN  /\ auth_file' = r.file
           /\ auth_op' = [op |-> "set", provider_id |-> provider_id,
                          auth_info |-> auth_info, raised |-> r.raised]
    /\ auth_before' = auth_file
    /\ UNCHANGED <<turn, pc, turn_vars, consumer_vars, store_vars, tok, provider_vars, tool_vars, service_vars>>

\* Auth.remove(provider_id)
AuthRemove(provider_id) ==
    /\ LET r == Auth_remove(auth_file, provider_id)
       IN  /\ auth_file' = r.file
           /\ auth_op' = [op |-> "remove", provider_id |-> provider_id,
                          auth_info |-> NoCred, raised |-> r.raised]
    /\ auth_before' = auth_file
    /\ UNCHANGED <<turn, pc, turn_vars, consumer_vars, store_vars, tok, provider_vars, tool_vars, service_vars>>

\* Auth.set cut short by the death of the process inside "with open(..., 'w')":
\* the file is truncated or partly written.
AuthSetCrash(provider_id, auth_info) ==
    /\ ~Auth_set(auth_file, provider_id, auth_info).raised
    /\ auth_file' = CorruptAuthFile
    /\ auth_op' = [op |-> "set_crash", provider_id |-> provider_id,
                   auth_info |-> auth_info, raised |-> FALSE]
    /\ auth_before' = auth_file
    /\ UNCHANGED <<turn, pc, turn_vars, consumer_vars, store_vars, tok, provider_vars, tool_vars, service_vars>>

\* Auth.remove cut short in the same way; it opens the file for writing only
\* when the provider id is in it.
AuthRemoveCrash(provider_id) ==
    /\ auth_file.kind = "json"
    /\ auth_file.data[provider_id] # NoCred
    /\ auth_file' = CorruptAuthFile
    /\ auth_op' = [op |-> "remove_crash", provider_id |-> provider_id,
                   auth_info |-> NoCred, raised |-> FALSE]
    /\ auth_before' = auth_file
    /\ UNCHANGED <<turn, pc, turn_vars, consumer_vars, store_vars, tok, provider_vars, tool_vars, service_vars>>

\* get_access_token(force_refresh) up to its return or to the await on the
\* token endpoint.
TokenBegin(force_refresh, current_time) ==
    /\ tok.pc # "http"
    /\ LET auth_info == Auth_get(auth_file, "github-copilot")
           call == [NoTokenCall EXCEPT !.force_refresh = force_refresh,
                                       !.current_time = current_time,
                                       !.auth_info = auth_info,
                                       !.failed_before =
                                           tok.failed_before \/ tok.response = "failure"]
       IN  tok' = IF auth_info = NoCred \/ auth_info.type # "oauth"
                  THEN [call EXCEPT !.pc = "returned"]
                  ELSE IF use_cached(auth_info, current_time, force_refresh)
                  THEN [call EXCEPT !.pc = "returned", !.result = auth_info.access]
                  ELSE [call EXCEPT !.pc = "http", !.http_calls = 1]
    /\ UNCHANGED <<turn, pc, turn_vars, consumer_vars, store_vars, auth_file, auth_before,
                   auth_op, provider_vars, tool_vars, service_vars>>

\* The token endpoint answers: the rest of get_access_token.
TokenReturn(resp) ==
    /\ tok.pc = "http"
    /\ LET access_result == AccessResult(tok.auth_info.refresh, resp)
           updated_auth == OAuthInfo(access_result.refresh, access_result.access,
                                     access_result.expires)
           r == Auth_set(auth_file, "github-copilot", updated_auth)
       IN  IF resp.raises
           THEN /\ tok' = [tok EXCEPT !.pc = "raised", !.response = "raised"]
                /\ UNCHANGED <<auth_file, auth_before, auth_op>>
           ELSE IF access_result = NoCred
           THEN /\ tok' = [tok EXCEPT !.pc = "returned", !.response = "failure"]
                /\ UNCHANGED <<auth_file, auth_before, auth_op>>
           ELSE /\ auth_file' = r.file
                /\ auth_before' = auth_file
                /\ auth_op' = [op |-> "set", provider_id |-> "github-copilot",
                               auth_info |-> updated_auth, raised |-> r.raised]
                /\ tok' = IF r.raised
                          THEN [tok EXCEPT !.pc = "raised",
                                           !.response =
                                               IF resp.is_success THEN "success"
                                               ELSE "failure"]
                          ELSE [tok EXCEPT !.pc = "returned",
                                           !.response =
                                               IF resp.is_success THEN "success"
                                               ELSE "failure",
                                           !.result = access_result.access]
    /\ UNCHANGED <<turn, pc, turn_vars, consumer_vars, store_vars, provider_vars, tool_vars, service_vars>>

-----------------------------------------------------------------------------
(* Session.chat_streaming and the _process_streaming task *)

\* Session.chat_streaming up to its return: the response object is created,
\* the task is scheduled (not yet run) and the caller starts to iterate.
StartTurn(provider_id, mode, message_content, sources) ==
    /\ turn < MaxTurns
    /\ pc = "idle"
    /\ turn' = turn + 1
    /\ pc' = "created"
    /\ request' = [session_id |-> SessionId, provider_id |-> provider_id, mode |-> mode,
                   message_content |-> message_content]
    /\ system_sources' = sources
    /\ sr' = StreamingSessionResponse
    /\ provider_calls' = <<>>
    /\ auth_checked' = "unchecked"
    /\ exc' = <<>>
    /\ consumed' = <<>>
    /\ provider_usage' = NoUsage
    /\ received_calls' = <<>>
    /\ response' = NoResponse
    /\ slice_i' = 0
    /\ tool_i' = 0
    /\ emitted' = <<>>
    /\ execs' = <<>>
    /\ cpc' = "iterating"
    /\ delivered' = <<>>
    /\ chat_acc' = NoChatAcc
    /\ chat_result' = NoChatResult
    /\ store0' = store
    /\ UNCHANGED <<store, info, adds, auth_vars, provider_vars, tool_vars, service_vars>>

\* "Combine system prompts (max 2 for caching)"
combined_system(system_prompts) ==
    IF Len(system_prompts) > 2
    THEN <<system_prompts[1], Join(<<"\n\n">>, Tail(system_prompts))>>
    ELSE system_prompts

ProviderChatMessage(role, content) == [role |-> role, content |-> content]

RECURSIVE system_messages(_)
system_messages(combined) ==
    IF combined = <<>> THEN <<>>
    ELSE (IF Strip(Head(combined)) # <<>>
          THEN <<ProviderChatMessage("system", Head(combined))>> ELSE <<>>)
         \o system_messages(Tail(combined))

\* The messages list built for the provider ("Create messages for the provider").
request_messages(sources, mode, message_content) ==
    LET system_prompts ==
            sources \o (IF mode.system_prompt # <<>> THEN <<mode.system_prompt>> ELSE <<>>)
    IN  system_messages(combined_system(system_prompts))
        \o <<ProviderChatMessage("user", message_content)>>

ChatRequest(messages, tools, stream) ==
    [messages |-> messages, max_tokens |-> 4096, tools |-> tools, stream |-> stream]

\* The handler with its two statements in the other order.
except_handler_complete_first(s, e) ==
    add_chunk(complete(s, NoUsage), "error", <<"Error: ">> \o e, NoKw)

\* except Exception as e: error chunk, then complete()
except_handler(s, e) ==
    complete(add_chunk(s, "error", <<"Error: ">> \o e, NoKw), NoUsage)

\* "Get provider and send request": ProviderManager.get, then
\* provider.is_authenticated(), each raising when it fails.
provider_check_no_auth(provider_id, authenticated) ==
    IF provider_id \notin RegisteredProviders
    THEN [kind |-> "raise", asked |-> FALSE,
          error |-> <<"Provider ", provider_id, " not found">>]
    ELSE [kind |-> "ok", asked |-> TRUE, error |-> <<>>]

provider_check(provider_id, authenticated) ==
    IF provider_id \notin RegisteredProviders
    THEN [kind |-> "raise", asked |-> FALSE,
          error |-> <<"Provider ", provider_id, " not found">>]
    ELSE IF ~authenticated
    THEN [kind |-> "raise", asked |-> TRUE,
          error |-> <<"Not authenticated with ", provider_id>>]
    ELSE [kind |-> "ok", asked |-> TRUE, error |-> <<>>]

\* First run of the task, from "Mark processing as started" to the first await
\* on the provider.
ProcessBegin(authenticated) ==
    /\ pc = "created"
    /\ LET s1 == [sr EXCEPT !._processing_started = TRUE]
           m == Mode_get(request.mode)
           c == provider_check(request.provider_id, authenticated)
           fail(e) ==
               /\ sr' = except_handler(s1, e)
               /\ pc' = "done"
               /\ exc' = e
               /\ UNCHANGED provider_calls
           chat_request ==
               ChatRequest(
                   request_messages(system_sources, m.mode, request.message_content),
                   list_available(m.mode.tools), TRUE)
       IN  /\ auth_checked' =
                  IF m.kind = "raise" \/ ~c.asked THEN "unchecked"
                  ELSE IF authenticated THEN "yes" ELSE "no"
           /\ IF m.kind = "raise" THEN fail(m.error)
              ELSE IF c.kind = "raise" THEN fail(c.error)
              ELSE IF HasChatStreaming(request.provider_id)
              THEN /\ sr' = s1
                   /\ pc' = "streaming"
                   /\ UNCHANGED exc
                   /\ provider_calls' =
                        Append(provider_calls,
                               [method |-> "chat_streaming", request |-> chat_request])
              ELSE /\ sr' = add_chunk(s1, "status", <<"Generating response...">>, NoKw)
                   /\ pc' = "chat"
                   /\ UNCHANGED exc
                   /\ provider_calls' =
                        Append(provider_calls, [method |-> "chat", request |-> chat_request])
           /\ emitted' = emitted \o NewChunks(sr, sr')
    /\ UNCHANGED <<turn, request, system_sources, consumed, provider_usage, received_calls,
                   response, slice_i, tool_i, execs, consumer_vars, store_vars, auth_vars, provider_vars, tool_vars, service_vars>>

\* One iteration of "async for chunk in provider.chat_streaming(chat_request)".
stream_chunk(s, chunk) ==
    IF chunk.type = "content" THEN add_chunk(s, "content", chunk.content, NoKw)
    ELSE IF chunk.type = "tool_calls"
    THEN add_chunk([s EXCEPT !.tool_calls = chunk.tool_calls], "tool_calls", <<>>,
                   [NoKw EXCEPT !.tool_calls = chunk.tool_calls])
    ELSE IF chunk.type = "complete" THEN complete(s, chunk.usage)
    ELSE s

StreamChunk(chunk) ==
    /\ pc = "streaming"
    /\ Len(consumed) < MaxProviderChunks
    /\ consumed' = Append(consumed, chunk)
    /\ sr' = stream_chunk(sr, chunk)
    /\ emitted' = emitted \o NewChunks(sr, sr')
    /\ pc' = IF chunk.type = "complete" THEN "done" ELSE pc
    /\ provider_usage' = IF chunk.type = "complete" THEN chunk.usage ELSE provider_usage
    /\ received_calls' =
          IF chunk.type = "tool_calls" THEN received_calls \o chunk.tool_calls
          ELSE received_calls
    /\ UNCHANGED <<turn, request, system_sources, provider_calls, auth_checked, exc, response, slice_i, tool_i,
                   execs, consumer_vars, store_vars, auth_vars, provider_vars, tool_vars, service_vars>>

\* The provider's generator is exhausted: the loop ends, nothing follows it.
StreamEnd ==
    /\ pc = "streaming"
    /\ pc' = "done"
    /\ UNCHANGED <<turn, turn_vars, consumer_vars, store_vars, auth_vars, provider_vars, tool_vars, service_vars>>

\* The provider's generator raises.
StreamRaise(e) ==
    /\ pc = "streaming"
    /\ sr' = except_handler(sr, e)
    /\ exc' = e
    /\ emitted' = emitted \o NewChunks(sr, sr')
    /\ pc' = "done"
    /\ UNCHANGED <<turn, request, system_sources, provider_calls, auth_checked, consumed, provider_usage,
                   received_calls, response, slice_i, tool_i, execs, consumer_vars,
                   store_vars, auth_vars, provider_vars, tool_vars, service_vars>>

-----------------------------------------------------------------------------
(* Non-streaming fallback and tool dispatch *)

\* Head of one iteration of the loop of _execute_tool_calls_streaming, up to
\* the await on ToolRegistry.execute_tool.
tool_start(s, tool_call) ==
    add_chunk(s, "tool_start", <<"Executing ", tool_call.name, "...">>, NoKw)

\* The iteration with a raised exception left to the handler of the task.
tool_finish_fatal(s, tool_call, r) ==
    IF r.kind = "result"
    THEN add_chunk(s, "tool_result", <<"[", tool_call.name, "] ">> \o r.output, NoKw)
    ELSE add_chunk(s, "error", <<"Error: ">> \o r.error, NoKw)

\* Rest of that iteration once execute_tool has returned or raised.
tool_finish(s, tool_call, r) ==
    IF r.kind = "result"
    THEN add_chunk(s, "tool_result", <<"[", tool_call.name, "] ">> \o r.output, NoKw)
    ELSE add_chunk(s, "tool_error", <<"[", tool_call.name, "] Error: ">> \o r.error, NoKw)

\* The tool calls dispatched together: tool_start of the second call is
\* enqueued with that of the first.
after_slices_start_all(s, resp) ==
    IF resp.tool_calls # <<>>
    THEN [sr |-> tool_start(
                    tool_start(
                        add_chunk([s EXCEPT !.tool_calls = resp.tool_calls], "tool_calls",
                                  <<>>, [NoKw EXCEPT !.tool_calls = resp.tool_calls]),
                        resp.tool_calls[1]),
                    resp.tool_calls[Len(resp.tool_calls)]),
          pc |-> "tool_exec", tool_i |-> 1]
    ELSE [sr |-> complete(s, resp.usage), pc |-> "done", tool_i |-> 0]

\* What follows the slicing loop, up to the next await: "Handle tool calls" and,
\* without tool calls, complete(response.usage).
after_slices(s, resp) ==
    IF resp.tool_calls # <<>>
    THEN [sr |-> tool_start(
                    add_chunk([s EXCEPT !.tool_calls = resp.tool_calls], "tool_calls", <<>>,
                              [NoKw EXCEPT !.tool_calls = resp.tool_calls]),
                    resp.tool_calls[1]),
          pc |-> "tool_exec", tool_i |-> 1]
    ELSE [sr |-> complete(s, resp.usage), pc |-> "done", tool_i |-> 0]

\* The loop with the whole content in one chunk.
slices_from_whole(s, resp, i) ==
    IF i < Len(resp.content)
    THEN [sr |-> add_chunk(s, "content", Slice(resp.content, i, Len(resp.content)), NoKw),
          pc |-> "pacing", tool_i |-> 0]
    ELSE after_slices(s, resp)

\* Slicing loop from index i up to its next sleep, or past its end.
slices_from(s, resp, i) ==
    IF i < Len(resp.content)
    THEN [sr |-> add_chunk(s, "content", Slice(resp.content, i, i + chunk_size), NoKw),
          pc |-> "pacing", tool_i |-> 0]
    ELSE after_slices(s, resp)

\* Record of one dispatch: the chunks enqueued when execute_tool was awaited and
\* when it came back, whether tool.execute ran and whether it raised, whether
\* execute_tool returned a ToolResult and whether that result is error-shaped.
ExecBegin(tool_call, at) ==
    [call |-> tool_call, begin_at |-> at, end_at |-> 0 - 1, executed |-> FALSE,
     raised |-> FALSE, error |-> <<>>, returned |-> FALSE, is_error |-> FALSE]

\* provider.chat returns.
ChatReturn(resp) ==
    /\ pc = "chat"
    /\ response' = resp
    /\ provider_usage' = resp.usage
    /\ received_calls' = resp.tool_calls
    /\ LET n == slices_from(sr, resp, 0)
       IN  /\ sr' = n.sr
           /\ pc' = n.pc
           /\ tool_i' = n.tool_i
           /\ slice_i' = 0
           /\ emitted' = emitted \o NewChunks(sr, n.sr)
           /\ execs' = IF n.pc = "tool_exec"
                       THEN Append(execs, ExecBegin(resp.tool_calls[1], Len(emitted')))
                       ELSE execs
    /\ UNCHANGED <<turn, request, system_sources, provider_calls, auth_checked, exc, consumed, consumer_vars,
                   store_vars, auth_vars, provider_vars, tool_vars, service_vars>>

\* provider.chat raises.
ChatRaise(e) ==
    /\ pc = "chat"
    /\ sr' = except_handler(sr, e)
    /\ exc' = e
    /\ emitted' = emitted \o NewChunks(sr, sr')
    /\ pc' = "done"
    /\ UNCHANGED <<turn, request, system_sources, provider_calls, auth_checked, consumed, provider_usage,
                   received_calls, response, slice_i, tool_i, execs, consumer_vars,
                   store_vars, auth_vars, provider_vars, tool_vars, service_vars>>

\* asyncio.sleep(0.1) of the slicing loop returns.
PacingWake ==
    /\ pc = "pacing"
    /\ LET n == slices_from(sr, response, slice_i + chunk_size)
       IN  /\ sr' = n.sr
           /\ pc' = n.pc
           /\ tool_i' = n.tool_i
           /\ slice_i' = slice_i + chunk_size
           /\ emitted' = emitted \o NewChunks(sr, n.sr)
           /\ execs' = IF n.pc = "tool_exec"
                       THEN Append(execs, ExecBegin(response.tool_calls[1], Len(emitted')))
                       ELSE execs
    /\ UNCHANGED <<turn, request, system_sources, provider_calls, auth_checked, exc, consumed, provider_usage,
                   received_calls, response, consumer_vars, store_vars, auth_vars, provider_vars, tool_vars, service_vars>>

\* ToolRegistry.execute_tool returns or raises for call tool_i; the loop goes on
\* to the next call, or _execute_tool_calls_streaming returns and the turn
\* completes.
ToolReturn(outcome) ==
    /\ pc = "tool_exec"
    /\ LET tool_call == response.tool_calls[tool_i]
           r == execute_tool(tool_call.name, tool_call.arguments, outcome)
           s1 == tool_finish(sr, tool_call, r)
           last == tool_i = Len(response.tool_calls)
           s2 == IF last THEN complete(s1, response.usage)
                 ELSE tool_start(s1, response.tool_calls[tool_i + 1])
           ended == [execs EXCEPT ![Len(execs)].end_at = Len(emitted),
                                  ![Len(execs)].executed = r.executed,
                                  ![Len(execs)].raised = r.executed /\ outcome.kind = "raise",
                                  ![Len(execs)].error =
                                      IF r.executed THEN outcome.error ELSE <<>>,
                                  ![Len(execs)].returned = (r.kind = "result"),
                                  ![Len(execs)].is_error =
                                      (r.kind = "result" /\ r.is_error)]
       IN  /\ sr' = s2
           /\ emitted' = emitted \o NewChunks(sr, s2)
           /\ pc' = IF last THEN "done" ELSE "tool_exec"
           /\ tool_i' = IF last THEN tool_i ELSE tool_i + 1
           /\ execs' = IF last THEN ended
                       ELSE Append(ended, ExecBegin(response.tool_calls[tool_i + 1],
                                                    Len(emitted')))
    /\ UNCHANGED <<turn, request, system_sources, provider_calls, auth_checked, exc, consumed, provider_usage,
                   received_calls, response, slice_i, consumer_vars, store_vars, auth_vars, provider_vars, tool_vars, service_vars>>

\* The task (streaming_response._background_task) is cancelled while it is
\* suspended: CancelledError is a BaseException, "except Exception" does not
\* catch it; a task cancelled before its first step never enters the try.
Cancel ==
    /\ pc \in {"created", "streaming", "chat", "pacing", "tool_exec"}
    /\ pc' = "cancelled"
    /\ UNCHANGED <<turn, turn_vars, consumer_vars, store_vars, auth_vars, provider_vars, tool_vars, service_vars>>

-----------------------------------------------------------------------------
(* The consumer: "async for chunk in streaming_response" of Session.chat *)

\* Body of the loop of Session.chat for one chunk.
chat_step(acc, chunk) ==
    IF chunk.type = "content" THEN [acc EXCEPT !.content = @ \o chunk.content]
    ELSE IF chunk.type = "tool_calls" THEN [acc EXCEPT !.tool_calls = chunk.tool_calls]
    ELSE IF chunk.type = "complete" THEN [acc EXCEPT !.usage = chunk.usage]
    ELSE acc

\* __anext__ returns a chunk.
ConsumerNext ==
    /\ cpc = "iterating"
    /\ LET r == anext(sr)
       IN  /\ r.kind = "chunk"
           /\ sr' = [sr EXCEPT !._chunks = r.rest]
           /\ delivered' = Append(delivered, r.chunk)
           /\ chat_acc' = chat_step(chat_acc, r.chunk)
    /\ UNCHANGED <<turn, pc, request, system_sources, provider_calls, auth_checked, exc, consumed,
                   provider_usage, received_calls, response, slice_i, tool_i, emitted, execs,
                   cpc, chat_result, store_vars, auth_vars, provider_vars, tool_vars, service_vars>>

\* __anext__ raises StopAsyncIteration; Session.chat returns its response.
ConsumerStop ==
    /\ cpc = "iterating"
    /\ anext(sr).kind = "stop"
    /\ cpc' = "stopped"
    /\ chat_result' = [returned |-> TRUE, content |-> chat_acc.content,
                       tool_calls |-> chat_acc.tool_calls, usage |-> chat_acc.usage]
    /\ UNCHANGED <<turn, pc, turn_vars, delivered, chat_acc, store_vars, auth_vars, provider_vars, tool_vars, service_vars>>

\* The caller is done with the response (Session.chat has returned, the TUI has
\* left its loop): the response object and the finished task are dropped.
Release ==
    /\ cpc = "stopped"
    /\ pc' = "idle"
    /\ request' = NoRequest
    /\ system_sources' = <<>>
    /\ sr' = StreamingSessionResponse
    /\ provider_calls' = <<>>
    /\ auth_checked' = "unchecked"
    /\ exc' = <<>>
    /\ consumed' = <<>>
    /\ provider_usage' = NoUsage
    /\ received_calls' = <<>>
    /\ response' = NoResponse
    /\ slice_i' = 0
    /\ tool_i' = 0
    /\ emitted' = <<>>
    /\ execs' = <<>>
    /\ cpc' = "none"
    /\ delivered' = <<>>
    /\ chat_acc' = NoChatAcc
    /\ chat_result' = NoChatResult
    /\ UNCHANGED <<turn, store_vars, auth_vars, provider_vars, tool_vars, service_vars>>

-----------------------------------------------------------------------------

(* AnthropicProvider.chat_streaming *)

\* The generator starts: _get_client() outside the try, then
\* client.messages.create inside it.
AnthropicCall(client_ok, create_ok) ==
    /\ anth.pc = "none"
    /\ anth' = IF ~client_ok THEN [anth EXCEPT !.pc = "raised"]
               ELSE IF ~create_ok
               THEN [anth EXCEPT !.pc = "finished",
                                 !.yielded = <<anthropic_error(<<"connection error">>)>>]
               ELSE [anth EXCEPT !.pc = "looping"]
    /\ UNCHANGED <<turn, pc, turn_vars, consumer_vars, store_vars, auth_vars, tool_vars, service_vars>>

\* The Anthropic stream delivers one event.
AnthropicEvent(chunk) ==
    /\ anth.pc = "looping"
    /\ Len(anth.events) < MaxUpstreamEvents
    /\ LET r == anthropic_event(anth.tool_calls, chunk)
       IN  anth' = [anth EXCEPT !.events = Append(@, chunk),
                                !.yielded = @ \o r.yields,
                                !.tool_calls = r.tool_calls,
                                !.pc = IF r.break THEN "finished" ELSE @]
    /\ UNCHANGED <<turn, pc, turn_vars, consumer_vars, store_vars, auth_vars, tool_vars, service_vars>>

\* The Anthropic stream ends: the loop is left and the generator returns.
AnthropicEnd ==
    /\ anth.pc = "looping"
    /\ anth' = [anth EXCEPT !.pc = "finished"]
    /\ UNCHANGED <<turn, pc, turn_vars, consumer_vars, store_vars, auth_vars, tool_vars, service_vars>>

\* The Anthropic stream raises while the loop waits for the next event.
AnthropicRaise(e) ==
    /\ anth.pc = "looping"
    /\ anth' = [anth EXCEPT !.pc = "finished", !.yielded = Append(@, anthropic_error(e))]
    /\ UNCHANGED <<turn, pc, turn_vars, consumer_vars, store_vars, auth_vars, tool_vars, service_vars>>

AnthropicNext ==
    \/ \E client_ok, create_ok \in BOOLEAN : AnthropicCall(client_ok, create_ok)
    \/ \E chunk \in UpstreamEvents : AnthropicEvent(chunk)
    \/ AnthropicEnd
    \/ \E e \in ProviderErrors : AnthropicRaise(e)

AnthropicSpec == Init /\ [][AnthropicNext]_vars

-----------------------------------------------------------------------------
(* Tool calls: each file tool's execute runs without an await that lets
   another task in, so it is one step; BashTool.execute waits for its child
   and is several. *)

not_tool_vars ==
    <<turn, pc, turn_vars, consumer_vars, store_vars, auth_vars, provider_vars, service_vars>>

\* The pending call ends with what execute handed back.
Completes(result) == fs' = result.files /\ tool' = Done(tool, result)

\* EditTool.execute
EditExecute ==
    /\ tool.pc = "pending" /\ tool.tool = "edit"
    /\ Completes(edit_execute(fs, tool.args))
    /\ UNCHANGED <<not_tool_vars, todo_state>>

\* MultiEditTool.execute
MultiEditExecute ==
    /\ tool.pc = "pending" /\ tool.tool = "multiedit"
    /\ Completes(multiedit_execute(fs, tool.args))
    /\ UNCHANGED <<not_tool_vars, todo_state>>

\* WriteTool.execute
WriteExecute ==
    /\ tool.pc = "pending" /\ tool.tool = "write"
    /\ Completes(write_execute(fs, tool.args))
    /\ UNCHANGED <<not_tool_vars, todo_state>>

\* ReadTool.execute
ReadExecute ==
    /\ tool.pc = "pending" /\ tool.tool = "read"
    /\ Completes(read_execute(fs, tool.args))
    /\ UNCHANGED <<not_tool_vars, todo_state>>

\* TodoWriteTool.execute, called for a session with a list.
TodoWrite(session_id, todos) ==
    /\ tool.tool \in {"none", "todowrite", "todoread"}
    /\ LET result == todowrite_execute(todo_state.state, session_id, todos)
       IN  /\ todo_state' = [state |-> result.state,
                             written |-> [todo_state.written EXCEPT
                                             ![session_id] = Todos(todos)]]
           /\ tool' = [NoToolCall EXCEPT !.pc = "done", !.tool = "todowrite",
                                         !.args = [session_id |-> session_id, todos |-> todos],
                                         !.kind = result.kind, !.error = result.error,
                                         !.output = result.output]
    /\ UNCHANGED <<not_tool_vars, fs>>

\* TodoReadTool.execute, called for a session.
TodoRead(session_id) ==
    /\ tool.tool \in {"none", "todowrite", "todoread"}
    /\ LET result == todoread_execute(todo_state.state, session_id)
       IN  /\ todo_state' = [todo_state EXCEPT !.state = result.state]
           /\ tool' = [NoToolCall EXCEPT !.pc = "done", !.tool = "todoread",
                                         !.args = [session_id |-> session_id],
                                         !.kind = result.kind, !.error = result.error,
                                         !.output = result.output]
    /\ UNCHANGED <<not_tool_vars, fs>>

\* BashTool.execute up to its first await: the timeout is computed and the
\* child is spawned, or create_subprocess_shell raises and the handler at the
\* end of execute makes an error result of it.
BashBegin(spawned) ==
    /\ tool.pc = "pending" /\ tool.tool = "bash"
    /\ tool' = IF spawned
               THEN [tool EXCEPT !.pc = "communicate", !.child = "running",
                                 !.timeout = effective_timeout(tool.args.timeout)]
               ELSE [tool EXCEPT !.pc = "done", !.kind = "error_result", !.error = "OSError",
                                 !.output = <<"<error>">>,
                                 !.timeout = effective_timeout(tool.args.timeout)]
    /\ UNCHANGED <<not_tool_vars, fs, todo_state>>

\* The child exits in time: communicate() returns and execute returns the output.
BashExit ==
    /\ tool.pc = "communicate"
    /\ tool' = [tool EXCEPT !.pc = "done", !.child = "reaped", !.kind = "result",
                            !.output = <<"<stdout>">>]
    /\ UNCHANGED <<not_tool_vars, fs, todo_state>>

\* wait_for times out: process.kill(), then execute awaits process.wait().
BashTimeout ==
    /\ tool.pc = "communicate"
    /\ tool' = [tool EXCEPT !.pc = "wait", !.child = "killed", !.timed_out = TRUE]
    /\ UNCHANGED <<not_tool_vars, fs, todo_state>>

\* process.wait() returns; the TimeoutError raised next is caught by the
\* handler at the end of execute.
BashReaped ==
    /\ tool.pc = "wait"
    /\ tool' = [tool EXCEPT !.pc = "done", !.child = "reaped", !.kind = "error_result",
                            !.error = "TimeoutError", !.output = <<"<error>">>]
    /\ UNCHANGED <<not_tool_vars, fs, todo_state>>

ToolNext ==
    \/ EditExecute
    \/ MultiEditExecute
    \/ WriteExecute
    \/ ReadExecute
    \/ \E session_id \in TodoSessions, todos \in TodoLists : TodoWrite(session_id, todos)
    \/ \E session_id \in TodoSessions : TodoRead(session_id)
    \/ \E spawned \in BOOLEAN : BashBegin(spawned)
    \/ BashExit
    \/ BashTimeout
    \/ BashReaped

ToolSpec == ToolInit /\ [][ToolNext]_vars

-----------------------------------------------------------------------------

\* Steps of a turn: the orchestrator task, the provider and tools it awaits,
\* and the consumer of the response.
TurnNext ==
    \/ \E p \in ProviderIds, mode \in ModeNames, text \in UserTexts, src \in SystemSources :
          StartTurn(p, mode, text, src)
    \/ \E authenticated \in BOOLEAN : ProcessBegin(authenticated)
    \/ \E chunk \in ProviderChunks : StreamChunk(chunk)
    \/ StreamEnd
    \/ \E e \in ProviderErrors : StreamRaise(e)
    \/ \E resp \in ChatResponses : ChatReturn(resp)
    \/ \E e \in ProviderErrors : ChatRaise(e)
    \/ PacingWake
    \/ \E outcome \in ToolOutcomes : ToolReturn(outcome)
    \/ Cancel
    \/ ConsumerNext
    \/ ConsumerStop
    \/ Release

Next ==
    \/ \E mode \in ModeNames : Create(mode)
    \/ \E id \in MsgIds, role \in MsgRoles, text \in MsgTexts, ts \in 1..MaxTs :
          AddMessage(Message(id, role, text, ts))
    \/ TurnNext

Spec == Init /\ [][Next]_vars

\* The session store on its own, with messages of every role, text and
\* timestamp order.
StoreNext ==
    \/ \E mode \in ModeNames : Create(mode)
    \/ \E id \in MsgIds, role \in MsgRoles, text \in StoreTexts, ts \in 1..MaxTs :
          AddMessage(Message(id, role, text, ts))
    \/ Delete

StoreSpec == Init /\ [][StoreNext]_vars

\* The session store when the process can die inside an operation and be
\* started again.
StoreCrashNext ==
    \/ StoreNext
    \/ \E mode \in ModeNames, point \in CreateCrashPoints : CreateCrash(mode, point)
    \/ \E id \in MsgIds, role \in MsgRoles, text \in MsgTexts, ts \in 1..MaxTs,
          point \in AddCrashPoints :
          AddMessageCrash(Message(id, role, text, ts), point)

StoreCrashSpec == Init /\ [][StoreCrashNext]_vars

\* The credential store and the Copilot token manager.
AuthNext ==
    \/ \E p \in AuthProviderIds, auth_info \in AuthInfos : AuthSet(p, auth_info)
    \/ \E p \in AuthProviderIds : AuthRemove(p)
    \/ \E force_refresh \in BOOLEAN, current_time \in ClockReadings :
          TokenBegin(force_refresh, current_time)
    \/ \E resp \in TokenResponses : TokenReturn(resp)

AuthSpec == Init /\ [][AuthNext]_vars

\* The credential store when the process can die inside a write.
AuthCrashNext ==
    \/ AuthNext
    \/ \E p \in AuthProviderIds, auth_info \in AuthInfos : AuthSetCrash(p, auth_info)
    \/ \E p \in AuthProviderIds : AuthRemoveCrash(p)

AuthCrashSpec == Init /\ [][AuthCrashNext]_vars

\* Turns on a session whose store is left alone.  The event loop resumes every
\* coroutine whose sleep has elapsed, so the consumer's polling loop keeps
\* running: weak fairness of its two steps.
FairSpec == Init /\ [][TurnNext]_vars /\ WF_vars(ConsumerNext) /\ WF_vars(ConsumerStop)

\* Turns in mode review on a provider without chat_streaming, whose model
\* answers with calls to tools inside and outside the tool list of the mode.
ReviewToolCallLists ==
    { << ToolCall("c1", "read", "valid") >>,
      << ToolCall("c1", "bash", "valid") >>,
      << ToolCall("c1", "grep", "valid"), ToolCall("c2", "write", "valid") >> }

ReviewChatResponses ==
    [content : { <<>>, <<"ok">> },
     tool_calls : ReviewToolCallLists \cup { <<>> },
     usage : { NoUsage, Usage(3) }]

ReviewNext ==
    \/ \E text \in UserTexts, src \in SystemSources : StartTurn("openai", "review", text, src)
    \/ \E authenticated \in BOOLEAN : ProcessBegin(authenticated)
    \/ \E resp \in ReviewChatResponses : ChatReturn(resp)
    \/ \E e \in ProviderErrors : ChatRaise(e)
    \/ PacingWake
    \/ \E outcome \in ToolOutcomes : ToolReturn(outcome)
    \/ Cancel
    \/ ConsumerNext
    \/ ConsumerStop
    \/ Release

ReviewSpec == Init /\ [][ReviewNext]_vars

-----------------------------------------------------------------------------
(* AnthropicProvider.chat and chat_streaming: the arguments of
   client.messages.create built from a ChatRequest *)

MaxRequestMessages == 3

\* Messages of a ChatRequest: two system messages, a user and an assistant
\* message.
RequestMessage ==
    { ProviderChatMessage("system", <<"A">>), ProviderChatMessage("system", <<"B">>),
      ProviderChatMessage("user", <<"h", "i">>),
      ProviderChatMessage("assistant", <<"y", "o">>) }

RequestMessageLists == UNION { [1..n -> RequestMessage] : n \in 0..MaxRequestMessages }

\* The messages of the other roles, as the loops of both methods append them.
RECURSIVE non_system(_)
non_system(messages) ==
    IF messages = <<>> THEN <<>>
    ELSE (IF Head(messages).role = "system" THEN <<>> ELSE <<Head(messages)>>)
         \o non_system(Tail(messages))

\* [msg.content for msg in request.messages if msg.role == "system"]
RECURSIVE system_contents(_)
system_contents(messages) ==
    IF messages = <<>> THEN <<>>
    ELSE (IF Head(messages).role = "system" THEN <<Head(messages).content>> ELSE <<>>)
         \o system_contents(Tail(messages))

\* chat: system_message is assigned in the loop by every system message, and
\* kwargs["system"] is set when it is truthy.
anthropic_chat_kwargs(messages) ==
    LET contents == system_contents(messages)
        system_message == IF contents = <<>> THEN <<>> ELSE contents[Len(contents)]
    IN  [messages |-> non_system(messages),
         has_system |-> system_message # <<>>,
         system |-> system_message,
         built |-> TRUE]

\* chat_streaming: kwargs["system"] is the system messages joined by a blank
\* line, set when there is a system message.
anthropic_chat_streaming_kwargs(messages) ==
    LET contents == system_contents(messages)
    IN  [messages |-> non_system(messages),
         has_system |-> contents # <<>>,
         system |-> Join(<<"\n\n">>, contents),
         built |-> TRUE]

\* A caller makes a ChatRequest.
AnthropicRequest(messages) ==
    /\ ~sent.chosen
    /\ sent' = [sent EXCEPT !.chosen = TRUE, !.messages = messages]
    /\ UNCHANGED <<turn, pc, turn_vars, consumer_vars, store_vars, auth_vars, provider_vars,
                   tool_vars, flow, bus, modes>>

\* provider.chat(request) up to client.messages.create
AnthropicChat ==
    /\ sent.chosen
    /\ ~sent.chat.built
    /\ sent' = [sent EXCEPT !.chat = anthropic_chat_kwargs(sent.messages)]
    /\ UNCHANGED <<turn, pc, turn_vars, consumer_vars, store_vars, auth_vars, provider_vars,
                   tool_vars, flow, bus, modes>>

\* provider.chat_streaming(request) up to client.messages.create
AnthropicChatStreaming ==
    /\ sent.chosen
    /\ ~sent.chat_streaming.built
    /\ sent' = [sent EXCEPT !.chat_streaming = anthropic_chat_streaming_kwargs(sent.messages)]
    /\ UNCHANGED <<turn, pc, turn_vars, consumer_vars, store_vars, auth_vars, provider_vars,
                   tool_vars, flow, bus, modes>>

RequestNext ==
    \/ \E messages \in RequestMessageLists : AnthropicRequest(messages)
    \/ AnthropicChat
    \/ AnthropicChatStreaming

RequestSpec == Init /\ [][RequestNext]_vars

-----------------------------------------------------------------------------
(* GitHubCopilotProvider.poll_device_flow *)

DeviceCodes == {"dc_1"}

\* What GitHubCopilotAuth.poll returns, or that the request raised.
PollResults ==
    { [status |-> "success", refresh |-> "gho_2"],
      [status |-> "pending", refresh |-> ""],
      [status |-> "failed", refresh |-> ""],
      [status |-> "raised", refresh |-> ""] }

\* GitHubCopilotAuthManager.complete_device_flow once poll has returned: the
\* file it leaves, whether Auth.set raised, and the value returned.
complete_device_flow(file, result) ==
    IF result.status = "success" /\ result.refresh # ""
    THEN LET r == Auth_set(file, "github-copilot", OAuthInfo(result.refresh, "", 0))
         IN  [file |-> r.file, stored |-> TRUE, raised |-> r.raised, success |-> TRUE]
    ELSE [file |-> file, stored |-> FALSE, raised |-> FALSE,
          success |-> result.status # "failed"]

\* poll_device_flow(device_code) up to the await on the token poll.
PollDeviceFlow(device_code) ==
    /\ flow.pc \in {"none", "returned", "raised"}
    /\ flow' = [NoFlow EXCEPT !.pc = "polling", !.device_code = device_code]
    /\ UNCHANGED <<turn, pc, turn_vars, consumer_vars, store_vars, auth_vars, provider_vars,
                   tool_vars, sent, bus, modes>>

\* What poll_device_flow returns for the value of is_authenticated().
poll_status_of(authenticated) == IF authenticated THEN "complete" ELSE "pending"

\* The token poll answers: the rest of complete_device_flow, then
\* is_authenticated() up to the return of get_access_token or to its await on
\* the token endpoint.
PollAnswer(result, current_time) ==
    /\ flow.pc = "polling"
    /\ LET c == complete_device_flow(auth_file, result)
           auth_info == Auth_get(c.file, "github-copilot")
           polled == [flow EXCEPT !.poll_status = result.status]
       IN  /\ auth_file' = c.file
           /\ auth_before' = IF c.stored THEN auth_file ELSE auth_before
           /\ auth_op' = IF c.stored
                         THEN [op |-> "set", provider_id |-> "github-copilot",
                               auth_info |-> OAuthInfo(result.refresh, "", 0),
                               raised |-> c.raised]
                         ELSE auth_op
           /\ flow' =
                IF result.status = "raised" \/ c.raised THEN [polled EXCEPT !.pc = "raised"]
                ELSE IF ~c.success THEN [polled EXCEPT !.pc = "returned", !.result = "failed"]
                ELSE IF auth_info = NoCred \/ auth_info.type # "oauth"
                THEN [polled EXCEPT !.pc = "returned", !.result = poll_status_of(FALSE)]
                ELSE IF use_cached(auth_info, current_time, FALSE)
                THEN [polled EXCEPT !.pc = "returned", !.result = poll_status_of(TRUE)]
                ELSE [polled EXCEPT !.pc = "access", !.auth_info = auth_info]
    /\ UNCHANGED <<turn, pc, turn_vars, consumer_vars, store_vars, tok, provider_vars,
                   tool_vars, sent, bus, modes>>

\* The token endpoint answers the get_access_token call of is_authenticated():
\* the rest of get_access_token, of is_authenticated (which turns an exception
\* into False) and of poll_device_flow.
PollAccessAnswer(resp) ==
    /\ flow.pc = "access"
    /\ LET access_result == AccessResult(flow.auth_info.refresh, resp)
           updated_auth == OAuthInfo(access_result.refresh, access_result.access,
                                     access_result.expires)
           r == Auth_set(auth_file, "github-copilot", updated_auth)
       IN  IF resp.raises \/ access_result = NoCred
           THEN /\ flow' = [flow EXCEPT !.pc = "returned", !.result = poll_status_of(FALSE)]
                /\ UNCHANGED <<auth_file, auth_before, auth_op>>
           ELSE /\ auth_file' = r.file
                /\ auth_before' = auth_file
                /\ auth_op' = [op |-> "set", provider_id |-> "github-copilot",
                               auth_info |-> updated_auth, raised |-> r.raised]
                /\ flow' = [flow EXCEPT !.pc = "returned",
                                        !.result = poll_status_of(~r.raised)]
    /\ UNCHANGED <<turn, pc, turn_vars, consumer_vars, store_vars, tok, provider_vars,
                   tool_vars, sent, bus, modes>>

\* The login command: credentials stored by earlier logins and removed by
\* logout, and the polls of a device flow.
DeviceFlowNext ==
    \/ \E auth_info \in AuthInfos : AuthSet("github-copilot", auth_info)
    \/ AuthRemove("github-copilot")
    \/ \E device_code \in DeviceCodes : PollDeviceFlow(device_code)
    \/ \E result \in PollResults, current_time \in ClockReadings :
          PollAnswer(result, current_time)
    \/ \E resp \in TokenResponses : PollAccessAnswer(resp)

DeviceFlowSpec == Init /\ [][DeviceFlowNext]_vars

-----------------------------------------------------------------------------
(* EventBus: subscribe, the unsubscribe closure, publish *)

MaxSubscribers == 3

Handlers == {"h1", "h2"}

\* What a handler does when it is invoked: return, raise, or call the
\* unsubscribe function of a subscription (its own or another) and return.
HandlerBehaviours ==
    { [kind |-> "return", event_type |-> None, handler |-> None],
      [kind |-> "raise", event_type |-> None, handler |-> None] }
    \cup [kind : {"unsubscribe"}, event_type : EventTypes, handler : Handlers]

\* list.remove(x): the list without its first x; ValueError when x is not in it.
RECURSIVE list_remove(_, _)
list_remove(list, x) ==
    IF list = <<>> THEN <<>>
    ELSE IF Head(list) = x THEN Tail(list)
    ELSE <<Head(list)>> \o list_remove(Tail(list), x)

\* EventBus.subscribe
subscribe(subscribers, event_type, handler) ==
    [subscribers EXCEPT ![event_type] = Append(@, handler)]

\* The unsubscribe function subscribe returned for (event_type, handler).
unsubscribe(subscribers, event_type, handler) ==
    [subscribers EXCEPT ![event_type] = list_remove(@, handler)]

BusSubscribe(event_type, handler) ==
    /\ bus.pc # "delivering"
    /\ Len(bus._subscribers[event_type]) < MaxSubscribers
    /\ bus' = [bus EXCEPT !._subscribers = subscribe(@, event_type, handler)]
    /\ UNCHANGED <<turn, pc, turn_vars, consumer_vars, store_vars, auth_vars, provider_vars,
                   tool_vars, sent, flow, modes>>

BusUnsubscribe(event_type, handler) ==
    /\ bus.pc # "delivering"
    /\ bus' = [bus EXCEPT !._subscribers = unsubscribe(@, event_type, handler)]
    /\ UNCHANGED <<turn, pc, turn_vars, consumer_vars, store_vars, auth_vars, provider_vars,
                   tool_vars, sent, flow, modes>>

\* publish(event_type, properties) up to its loop: the iterator over the list
\* of the event type is created.
BusPublish(event_type) ==
    /\ bus.pc # "delivering"
    /\ bus' = [bus EXCEPT !.pc = "delivering", !.event_type = event_type, !.i = 0,
                          !.at_begin = bus._subscribers[event_type], !.invoked = <<>>]
    /\ UNCHANGED <<turn, pc, turn_vars, consumer_vars, store_vars, auth_vars, provider_vars,
                   tool_vars, sent, flow, modes>>

\* One iteration of "for handler in self._subscribers.get(event_type, [])":
\* the iterator yields the element at its position in the list as it is now,
\* and the handler runs.
BusDeliver(behaviour) ==
    /\ bus.pc = "delivering"
    /\ bus.i < Len(bus._subscribers[bus.event_type])
    /\ LET handler == bus._subscribers[bus.event_type][bus.i + 1]
       IN  bus' = [bus EXCEPT !.invoked = Append(@, handler),
                              !.i = @ + 1,
                              !._subscribers =
                                  IF behaviour.kind = "unsubscribe"
                                  THEN unsubscribe(@, behaviour.event_type, behaviour.handler)
                                  ELSE @]
    /\ UNCHANGED <<turn, pc, turn_vars, consumer_vars, store_vars, auth_vars, provider_vars,
                   tool_vars, sent, flow, modes>>

\* The iterator is exhausted: publish returns.
BusPublishReturn ==
    /\ bus.pc = "delivering"
    /\ bus.i >= Len(bus._subscribers[bus.event_type])
    /\ bus' = [bus EXCEPT !.pc = "published"]
    /\ UNCHANGED <<turn, pc, turn_vars, consumer_vars, store_vars, auth_vars, provider_vars,
                   tool_vars, sent, flow, modes>>

BusNext ==
    \/ \E event_type \in EventTypes, handler \in Handlers : BusSubscribe(event_type, handler)
    \/ \E event_type \in EventTypes, handler \in Handlers : BusUnsubscribe(event_type, handler)
    \/ \E event_type \in EventTypes : BusPublish(event_type)
    \/ \E behaviour \in HandlerBehaviours : BusDeliver(behaviour)
    \/ BusPublishReturn

BusSpec == Init /\ [][BusNext]_vars

-----------------------------------------------------------------------------
(* Custom modes: Mode.create and Mode.get over config.modes *)

\* ModeInfo values given to Mode.create (model, temperature and max_tokens are
\* left at None).
CustomModes ==
    [name : CustomModeNames,
     description : { <<"mine">> },
     system_prompt : { <<"p1">>, <<"p2">> },
     tools : { <<>>, <<"read">>, <<"read", "bash">> }]

GetNames == CustomModeNames \cup {"default", "nomode"}

\* mode.model_dump(exclude={"name"})
model_dump_exclude_name(mode) ==
    [description |-> mode.description, system_prompt |-> mode.system_prompt,
     tools |-> mode.tools]

\* ModeInfo(**mode_data): name, description and system_prompt are required
\* fields.
ModeInfo(mode_data) ==
    IF {"name", "description", "system_prompt"} \subseteq DOMAIN mode_data
    THEN [kind |-> "ok", mode |-> mode_data]
    ELSE [kind |-> "raise", error |-> <<"validation error for ModeInfo">>]

\* Mode.get(name) with config.modes as it is: custom modes first, then the
\* built-in ones.
Mode_get_config(config_modes, name) ==
    IF name \in DOMAIN config_modes /\ config_modes[name] # NoModeData
    THEN ModeInfo(config_modes[name])
    ELSE Mode_get(name)

\* Mode.create(mode): the entry is put into the cached config, which
\* Config.save writes out and keeps.
ModeCreate(mode) ==
    /\ modes' = [modes EXCEPT !.config[mode.name] = model_dump_exclude_name(mode),
                              !.created = mode,
                              !.got = NoGot]
    /\ UNCHANGED <<turn, pc, turn_vars, consumer_vars, store_vars, auth_vars, provider_vars,
                   tool_vars, sent, flow, bus>>

\* Mode.get(name)
ModeGet(name) ==
    /\ LET r == Mode_get_config(modes.config, name)
       IN  modes' = [modes EXCEPT !.got =
                        [name |-> name, kind |-> r.kind,
                         mode |-> IF r.kind = "ok" THEN r.mode ELSE NoMode]]
    /\ UNCHANGED <<turn, pc, turn_vars, consumer_vars, store_vars, auth_vars, provider_vars,
                   tool_vars, sent, flow, bus>>

ModeNext ==
    \/ \E mode \in CustomModes : ModeCreate(mode)
    \/ \E name \in GetNames : ModeGet(name)

ModeSpec == Init /\ [][ModeNext]_vars

-----------------------------------------------------------------------------
(* Properties *)

Last(q) == q[Len(q)]

CountType(q, t) == Cardinality({i \in DOMAIN q : q[i].type = t})

HasType(q, t) == \E i \in DOMAIN q : q[i].type = t

\* The task has run to its end and the turn ended without an error chunk.
TurnSucceeded ==
    /\ pc = "done"
    /\ emitted # <<>>
    /\ Last(emitted).type = "complete"
    /\ ~HasType(emitted, "error")

\* C1: whatever the provider does, once the task of a turn has finished the
\* chunk stream holds exactly one complete chunk and it is the last chunk
\* enqueued.
C1_ExactlyOneComplete ==
    pc = "done" =>
        /\ CountType(emitted, "complete") = 1
        /\ Last(emitted).type = "complete"

\* C2: a provider chunk of type error with message msg is the last provider
\* chunk consumed, and the orchestrator has then enqueued error(msg) followed by
\* a complete chunk without usage and finished.
C2_ProviderErrorEndsTurn ==
    \A i \in DOMAIN consumed :
        consumed[i].type = "error" =>
            /\ i = Len(consumed)
            /\ pc = "done"
            /\ Len(emitted) >= 2
            /\ emitted[Len(emitted) - 1] = Chunk("error", consumed[i].content, NoKw)
            /\ Last(emitted) = Chunk("complete", <<>>, NoKw)
            /\ sr.usage = NoUsage

\* C3: when the turn has been cancelled while suspended on the provider or on a
\* tool, the chunk stream ends with exactly one error("cancelled") chunk
\* followed by complete.
C3_CancelEmitsCancelled ==
    (pc = "cancelled" /\ provider_calls # <<>>) =>
        /\ Len(emitted) >= 2
        /\ emitted[Len(emitted) - 1].type = "error"
        /\ Contains(emitted[Len(emitted) - 1].content, <<"cancelled">>)
        /\ CountType(emitted, "error") = 1
        /\ Last(emitted).type = "complete"

\* C4: at every point of every interleaving, the chunks delivered to the
\* consumer followed by the chunks still queued are exactly the chunks enqueued,
\* in enqueue order (nothing dropped, duplicated or reordered); a delivered
\* complete chunk is the last chunk of the turn; and a consumer that has stopped
\* has received them all.
C4_FifoDelivery ==
    /\ delivered \o sr._chunks = emitted
    /\ \A i \in DOMAIN delivered : delivered[i].type = "complete" => i = Len(emitted)
    /\ cpc = "stopped" => delivered = emitted /\ Last(delivered).type = "complete"

\* The consumer is in mid-stream: it has taken a chunk while the producer is
\* still running and two more chunks are queued.
C4_Witness ==
    /\ pc \in {"streaming", "pacing", "tool_exec"}
    /\ Len(delivered) >= 1
    /\ Len(sr._chunks) >= 2

\* C5: once the producer has called complete, the consumer (which began to
\* iterate before the producer started) eventually stops, and it has then
\* received every chunk of the turn.
C5_ConsumerTerminates ==
    HasType(emitted, "complete") ~> (cpc = "stopped" /\ delivered = emitted)

\* The consumer has stopped after one content chunk and the complete chunk.
C5_Witness ==
    /\ cpc = "stopped"
    /\ Len(delivered) = 2
    /\ delivered[1].type = "content"
    /\ delivered[2].type = "complete"

\* C6: after a successful turn every tool call the provider emitted has a
\* tool_start chunk and a later tool_result or tool_error chunk, both carrying
\* the id of the call.
C6_ToolChunksCarryCallId ==
    TurnSucceeded =>
        \A k \in DOMAIN received_calls :
            \E i, j \in DOMAIN emitted :
                /\ i < j
                /\ emitted[i].type = "tool_start"
                /\ emitted[i].call_id = received_calls[k].id
                /\ emitted[j].type \in {"tool_result", "tool_error"}
                /\ emitted[j].call_id = received_calls[k].id

\* C7: after a successful turn the session store holds a new user message with
\* the text of the request and exactly one new assistant message, whose text is
\* the concatenation of the turn's content chunks.
C7_TurnPersisted ==
    TurnSucceeded =>
        LET new == {id \in StoredIds(store) : store[id] # store0[id]}
        IN  /\ \E id \in new : /\ store[id].role = "user"
                               /\ store[id].text = request.message_content
            /\ Cardinality({id \in new : store[id].role = "assistant"}) = 1
            /\ \A id \in new : store[id].role = "assistant" => store[id].text = sr.content

ToProviderMessages(ms) == [i \in DOMAIN ms |-> ProviderChatMessage(ms[i].role, ms[i].text)]

\* C8: the messages of every provider call are the system messages, then the
\* session's persisted messages in stored order, then the new user message.
C8_RequestCarriesHistory ==
    \A c \in DOMAIN provider_calls :
        LET messages == provider_calls[c].request.messages
            IsSystem(m) == m.role = "system"
            NotSystem(m) == m.role # "system"
            system == SelectSeq(messages, IsSystem)
            rest == SelectSeq(messages, NotSystem)
        IN  /\ messages = system \o rest
            /\ \E history \in get_messages(store0) :
                  rest = ToProviderMessages(history)
                         \o <<ProviderChatMessage("user", request.message_content)>>

\* C9: when the provider reported a usage, the complete chunk delivered
\* downstream carries it and Session.chat returns it.
C9_UsageReachesCaller ==
    (chat_result.returned /\ provider_usage.some /\ ~HasType(delivered, "error")) =>
        /\ Last(delivered).type = "complete"
        /\ Last(delivered).usage = provider_usage
        /\ chat_result.usage = provider_usage

\* C10: when the execute of a dispatched tool raised, the chunk enqueued after
\* it is a tool_error chunk that contains the failure message, preceded by the
\* tool_start of that call, and the turn ends with complete and no error chunk.
C10_ToolFailureIsToolError ==
    \A k \in DOMAIN execs :
        (execs[k].raised /\ pc = "done") =>
            /\ emitted[execs[k].begin_at].type = "tool_start"
            /\ emitted[execs[k].end_at + 1].type = "tool_error"
            /\ Contains(emitted[execs[k].end_at + 1].content, execs[k].error)
            /\ TurnSucceeded

\* C11: every dispatch through ToolRegistry.execute_tool comes back as a
\* ToolResult, whatever the tool id and the arguments; when the arguments fail
\* validation or tool.execute raised, that result is error-shaped.
C11_ExecuteToolAlwaysReturnsResult ==
    \A k \in DOMAIN execs :
        execs[k].end_at >= 0 =>
            /\ execs[k].returned
            /\ (execs[k].call.arguments # "valid" \/ execs[k].raised) => execs[k].is_error

\* C12: when the task has run and the selected provider is not registered or
\* answered is_authenticated() with false, no chat or chat_streaming call was
\* made, the chunks enqueued are exactly one error chunk then complete, and the
\* consumer that has stopped received exactly these.
C12_NoProviderCallWhenNotReady ==
    (pc = "done" /\ (request.provider_id \notin RegisteredProviders \/ auth_checked = "no")) =>
        /\ provider_calls = <<>>
        /\ Len(emitted) = 2
        /\ emitted[1].type = "error"
        /\ emitted[2].type = "complete"
        /\ cpc = "stopped" => delivered = emitted

\* The task found the provider registered and not authenticated, and the
\* consumer has read the stream to its end.
C12_Witness ==
    /\ pc = "done"
    /\ request.provider_id \in RegisteredProviders
    /\ auth_checked = "no"
    /\ cpc = "stopped"
    /\ Len(delivered) = 2

\* C13: after any sequence of create and add_message calls, every listing
\* get_messages can return is in non-decreasing timestamp order and
\* message_count of info.json is the number of messages in it.
C13_ListingSortedAndCounted ==
    info.exists =>
        \A ms \in get_messages(store) :
            /\ \A i, j \in DOMAIN ms : i < j => ms[i].timestamp <= ms[j].timestamp
            /\ info.message_count = Len(ms)

\* Two messages are stored, the one with the later timestamp under the id the
\* other order would list first, after an add_message that repeated nothing.
C13_Witness ==
    /\ info.exists
    /\ adds = 2
    /\ store["m1"] # NoMsg
    /\ store["m2"] # NoMsg
    /\ store["m1"].timestamp > store["m2"].timestamp
    /\ info.message_count = 2

\* C14: a message file, once written, is the same after every later step that
\* leaves the session in place (every step but delete).
C14_PersistedMessagesImmutable ==
    [][\A id \in MsgIds :
          (store[id] # NoMsg /\ info'.exists) => store'[id] = store[id]]_vars

\* C15: the mode of a persisted session names an existing mode.
C15_PersistedModeExists ==
    info.file = "valid" => Mode_get(info.mode).kind = "ok"

\* C16: when a step sets the title, the title is at most 50 characters long
\* and is a prefix of the text of the earliest user-role message stored.
C16_TitleFromFirstUserMessage ==
    [][(info.title = <<>> /\ info'.title # <<>>) =>
          /\ Len(info'.title) <= TitleLen
          /\ \E id \in StoredIds(store') :
                /\ store'[id].role = "user"
                /\ \A other \in StoredIds(store') :
                      store'[other].role = "user" =>
                          store'[id].timestamp <= store'[other].timestamp
                /\ Take(store'[id].text, Len(info'.title)) = info'.title]_vars

\* C17: info.json of a session that Session.get returns still parses after
\* every step that leaves the session in place, the death of the process
\* inside an operation included.
C17_InfoStaysParseable ==
    [][(Session_get(info) # NoInfo /\ info'.exists) => Session_get(info') # NoInfo]_vars

\* C18: whatever Auth.set or Auth.remove call the process died in, the
\* credential file is absent or holds a complete map.
C18_CredentialFileNeverCorrupt ==
    auth_file.kind # "corrupt"

\* C19: right after Auth.set(p, c), Auth.get(p) is c in every field and
\* Auth.get of every other provider id is what it was before the call.
C19_SetThenGet ==
    (auth_op.op = "set" /\ ~auth_op.raised) =>
        /\ Auth_get(auth_file, auth_op.provider_id) = auth_op.auth_info
        /\ \A q \in AuthProviderIds \ {auth_op.provider_id} :
              Auth_get(auth_file, q) = Auth_get(auth_before, q)

\* Auth.set replaced an entry of one provider while another provider had an
\* entry of the other kind.
C19_Witness ==
    /\ auth_op.op = "set"
    /\ auth_op.provider_id = "github-copilot"
    /\ auth_op.auth_info.type = "oauth"
    /\ Auth_get(auth_before, "github-copilot") # NoCred
    /\ Auth_get(auth_before, "github-copilot") # auth_op.auth_info
    /\ Auth_get(auth_before, "anthropic").type = "api"

\* C20: a get_access_token call that read an OAuth credential has sent no
\* request when the stored access token is non-empty, expires after the clock
\* reading and force_refresh is false, and exactly one request otherwise, also
\* once it has returned.
C20_OneRequestUnlessCached ==
    (tok.pc # "none" /\ tok.auth_info.type = "oauth") =>
        tok.http_calls =
            IF /\ tok.auth_info.access # ""
               /\ tok.auth_info.expires > tok.current_time
               /\ ~tok.force_refresh
            THEN 0 ELSE 1

\* An unforced call found a non-empty access token that had expired, asked the
\* token endpoint and returned the new token.
C20_Witness ==
    /\ tok.pc = "returned"
    /\ ~tok.force_refresh
    /\ tok.auth_info.type = "oauth"
    /\ tok.auth_info.access # ""
    /\ tok.auth_info.expires <= tok.current_time
    /\ tok.http_calls = 1
    /\ tok.result = "tid_2"

\* C21: when the token endpoint answers with a non-success status,
\* get_access_token returns None and the credential file is what it was; when
\* it answers with a token and the stored credential is still the one the call
\* read, the call returns the new access token and the stored credential has
\* that access token, an expiry after the call's clock reading and the refresh
\* token it had before.
C21_FailedRefreshKeepsCredential ==
    [][(tok.pc = "http" /\ tok'.pc # "http") =>
          /\ tok'.response = "failure" =>
                /\ tok'.pc = "returned"
                /\ tok'.result = None
                /\ auth_file' = auth_file
          /\ (tok'.response = "success"
                /\ Auth_get(auth_file, "github-copilot") = tok.auth_info) =>
                LET old == Auth_get(auth_file, "github-copilot")
                    new == Auth_get(auth_file', "github-copilot")
                IN  /\ tok'.pc = "returned"
                    /\ new.type = "oauth"
                    /\ new.refresh = old.refresh
                    /\ new.access = tok'.result
                    /\ new.access # ""
                    /\ new.expires > tok.current_time]_vars

\* A refresh failed and left the credential as the call read it; a later call
\* refreshed it and returned the new access token, stored under the same
\* refresh token.
C21_Witness ==
    /\ tok.failed_before
    /\ tok.pc = "returned"
    /\ tok.response = "success"
    /\ tok.result = "tid_2"
    /\ Auth_get(auth_file, "github-copilot") =
          OAuthInfo(tok.auth_info.refresh, "tid_2", 2 * MsPerSecond)

\* C22: once the generator has returned, whatever the upstream events were,
\* the chunks it yielded hold exactly one terminal chunk (complete or error),
\* and that chunk is the last one.
C22_OneTerminalChunk ==
    anth.pc = "finished" =>
        /\ Cardinality({i \in DOMAIN anth.yielded :
                           anth.yielded[i].type \in {"complete", "error"}}) = 1
        /\ anth.yielded[Len(anth.yielded)].type \in {"complete", "error"}

\* C23: an edit with replace_all false and old_string different from
\* new_string (and not empty, which is the create-file path), on a file where
\* one of the search texts the four strategies produce occurs exactly once,
\* returns a result and leaves the file with a content different from before.
C23_UniqueMatchEdits ==
    LET path == resolve(tool.args.file_path)
        before == tool.before[path].content
        texts == search_texts(before, tool.args.old_string)
    IN  ( /\ tool.tool = "edit" /\ tool.pc = "done"
          /\ tool.args.file_path # EmptyPath
          /\ path \in FilePaths /\ tool.before[path].exists
          /\ ~tool.args.replace_all
          /\ tool.args.old_string # tool.args.new_string
          /\ tool.args.old_string # <<>>
          /\ \E k \in DOMAIN texts :
                Find(before, texts[k]) >= 0 /\ Find(before, texts[k]) = RFind(before, texts[k]) )
        => (tool.kind = "result" /\ fs[path].content # before)

\* C24: an edit with replace_all false whose old_string (not empty) is at more
\* than one place in the file fails and leaves the files as they were; and
\* every edit that fails leaves the files as they were.
C24_AmbiguousEditFails ==
    LET path == resolve(tool.args.file_path)
        before == tool.before[path].content
    IN  (tool.tool = "edit" /\ tool.pc = "done") =>
            /\ ( /\ tool.args.file_path # EmptyPath
                 /\ path \in FilePaths /\ tool.before[path].exists
                 /\ ~tool.args.replace_all
                 /\ tool.args.old_string # <<>>
                 /\ Find(before, tool.args.old_string) # RFind(before, tool.args.old_string) )
               => (tool.kind = "raise" /\ fs = tool.before)
            /\ tool.kind = "raise" => fs = tool.before

\* C25: after a multiedit call the files are as after calling the edit tool
\* with the first edit, then the second, and so on, on the same file.
C25_MultiEditIsEditsInTurn ==
    LET RECURSIVE edits_in_turn(_, _)
        edits_in_turn(files, edits) ==
            IF edits = <<>> THEN files
            ELSE edits_in_turn(
                     edit_execute(files,
                                  EditParameters(tool.args.filePath, Head(edits).old_string,
                                                 Head(edits).new_string,
                                                 Head(edits).replace_all)).files,
                     Tail(edits))
    IN  (tool.tool = "multiedit" /\ tool.pc = "done") =>
            fs = edits_in_turn(tool.before, tool.args.edits)

\* C26: a todo read returns the list last written under its session id, and
\* every session's stored list is the one that session last wrote.
C26_TodoReadReturnsWritten ==
    /\ ( /\ tool.tool = "todoread" /\ tool.pc = "done"
         /\ todo_state.written[tool.args.session_id].present )
       => ( /\ tool.kind = "result"
            /\ tool.output = todo_state.written[tool.args.session_id].todos )
    /\ \A s \in TodoSessions : todo_state.state[s] = todo_state.written[s]

\* C27: read, write and edit, given a relative file_path that resolves to a
\* place outside the workspace, fail, touch no file outside the workspace and
\* leave the files as they were.
C27_RelativeEscapeRefused ==
    ( /\ tool.tool \in {"read", "write", "edit"} /\ tool.pc = "done"
      /\ ~tool.args.file_path.abs
      /\ ~InsideRoot(resolve(tool.args.file_path)) )
    => ( /\ tool.kind \in {"raise", "error_result"}
         /\ \A a \in tool.accessed : InsideRoot(a.path)
         /\ fs = tool.before )

C29_BashTimeout ==
    (tool.tool = "bash" /\ tool.pc # "pending") =>
        /\ tool.timeout = IF tool.args.timeout = NoneInt THEN DEFAULT_TIMEOUT
                          ELSE tool.args.timeout
        /\ tool.timeout <= MAX_TIMEOUT
        /\ (tool.pc = "done" /\ tool.timed_out)
           => (tool.child = "reaped" /\ tool.kind = "error_result")

\* C30: when the task of a turn caught an exception, the chunk stream of the
\* finished turn holds exactly one error chunk and exactly one complete chunk,
\* the error chunk right before the complete chunk, which is last; a caller
\* that iterated to the end has received just these chunks.
C30_OneErrorBeforeComplete ==
    (pc = "done" /\ exc # <<>>) =>
        /\ CountType(emitted, "error") = 1
        /\ CountType(emitted, "complete") = 1
        /\ Len(emitted) >= 2
        /\ emitted[Len(emitted) - 1] = Chunk("error", <<"Error: ">> \o exc, NoKw)
        /\ Last(emitted).type = "complete"
        /\ cpc = "stopped" => delivered = emitted

C30_Witness ==
    /\ pc = "done" /\ exc # <<>>
    /\ Len(emitted) >= 3
    /\ emitted[1].type = "content"

\* Concatenation of the contents of the content chunks of a chunk sequence.
RECURSIVE ContentOf(_)
ContentOf(q) ==
    IF q = <<>> THEN <<>>
    ELSE (IF Head(q).type = "content" THEN Head(q).content ELSE <<>>) \o ContentOf(Tail(q))

\* The turn went through the non-streaming fallback: provider.chat was called.
Fallback == \E i \in DOMAIN provider_calls : provider_calls[i].method = "chat"

\* C31: the tool calls of a turn are dispatched one at a time in the order the
\* model emitted them: the k-th dispatch is the k-th tool call, a dispatch
\* begins only after the one before it has come back, and a tool_start chunk
\* is enqueued only when every earlier tool_start has its tool_result or
\* tool_error chunk.
C31_ToolCallsOneAtATime ==
    /\ \A i \in DOMAIN execs :
          /\ i <= Len(response.tool_calls)
          /\ execs[i].call = response.tool_calls[i]
          /\ i < Len(execs) =>
                /\ execs[i].end_at >= execs[i].begin_at
                /\ execs[i].end_at < execs[i + 1].begin_at
    /\ \A k \in DOMAIN emitted :
          emitted[k].type = "tool_start" =>
             LET before == SubSeq(emitted, 1, k - 1)
             IN  CountType(before, "tool_start")
                    = CountType(before, "tool_result") + CountType(before, "tool_error")

C31_Witness ==
    /\ pc = "done"
    /\ Len(execs) = 2
    /\ CountType(emitted, "tool_start") = 2
    /\ execs[2].executed

\* C32: once a tool call of a turn has failed (unknown tool, invalid
\* arguments, or execute raising), no error chunk is enqueued and the task
\* catches no exception; the loop goes on to the next tool call, every call
\* with a registered tool and valid arguments is executed, and the finished
\* turn has dispatched every tool call and ends with a complete chunk.
C32_ToolFailureDoesNotEndTurn ==
    (\E i \in DOMAIN execs :
        execs[i].end_at >= 0 /\ (~execs[i].returned \/ execs[i].is_error))
    => /\ exc = <<>>
       /\ ~HasType(emitted, "error")
       /\ pc \in {"tool_exec", "done", "cancelled"}
       /\ pc = "tool_exec" => (Len(execs) = tool_i /\ execs[tool_i].end_at < 0)
       /\ pc = "done" =>
             /\ Len(execs) = Len(response.tool_calls)
             /\ Last(emitted).type = "complete"
             /\ CountType(emitted, "complete") = 1
             /\ \A j \in DOMAIN execs :
                   /\ execs[j].end_at >= 0
                   /\ execs[j].executed =
                         (execs[j].call.name \in RegisteredTools
                          /\ execs[j].call.arguments = "valid")

C32_Witness ==
    /\ pc = "done"
    /\ Len(execs) = 2
    /\ ~execs[1].returned
    /\ execs[2].executed /\ ~execs[2].is_error
    /\ Last(emitted).type = "complete"

\* C34: in the non-streaming fallback the content chunks are non-empty, at
\* most chunk_size long, and together spell the response content from its
\* start (all of it once the slicing loop is over); every content chunk is
\* enqueued before every tool chunk and before the complete chunk.
C34_FallbackSlices ==
    (Fallback /\ exc = <<>> /\ pc \in {"pacing", "tool_exec", "done"}) =>
        LET cat == ContentOf(emitted)
        IN  /\ \A k \in DOMAIN emitted :
                  emitted[k].type = "content" =>
                     /\ emitted[k].content # <<>>
                     /\ Len(emitted[k].content) <= chunk_size
                     /\ \A j \in 1..(k - 1) :
                           emitted[j].type \notin {"tool_calls", "tool_start", "tool_result",
                                                   "tool_error", "complete"}
            /\ cat = SubSeq(response.content, 1, Len(cat))
            /\ pc # "pacing" => cat = response.content

C34_Witness ==
    /\ Fallback /\ pc = "done"
    /\ Len(response.content) > chunk_size
    /\ CountType(emitted, "content") = 2
    /\ Len(execs) > 0

\* C39: the request handed to provider.chat by the non-streaming fallback has
\* stream = false.
C39_FallbackRequestNotStreaming ==
    \A i \in DOMAIN provider_calls :
        provider_calls[i].method = "chat" => ~provider_calls[i].request.stream


\* C35: a tool call of the model is executed only if its tool is in the tool
\* list of the mode of the turn.
C35_OnlyAllowedToolsExecuted ==
    \A i \in DOMAIN execs :
        execs[i].executed =>
            /\ Mode_get(request.mode).kind = "ok"
            /\ \E k \in DOMAIN Mode_get(request.mode).mode.tools :
                  Mode_get(request.mode).mode.tools[k] = execs[i].call.name

\* C37: when the last operation on the credential store is a completed
\* Auth.remove("github-copilot"), a get_access_token call that was waiting for
\* the token endpoint finishes with the store still holding no github-copilot
\* credential.
C37_LogoutSurvivesRefresh ==
    [][(/\ auth_op.op = "remove" /\ auth_op.provider_id = "github-copilot"
        /\ ~auth_op.raised
        /\ tok.pc = "http" /\ tok'.pc # "http")
       => Auth_get(auth_file', "github-copilot") = NoCred]_vars

\* C33: what chat and chat_streaming pass to client.messages.create for a
\* request has no system-role message among its messages and has a system
\* field whenever the request has a system message, holding every system
\* message of the request; when both methods were given the same request they
\* passed the same system field and the same messages.
C33_SystemFieldSame ==
    LET contents == system_contents(sent.messages)
        right(kwargs) ==
            kwargs.built =>
                /\ \A k \in DOMAIN kwargs.messages : kwargs.messages[k].role # "system"
                /\ kwargs.has_system = (contents # <<>>)
                /\ \A k \in DOMAIN contents : Contains(kwargs.system, contents[k])
    IN  /\ right(sent.chat)
        /\ right(sent.chat_streaming)
        /\ (sent.chat.built /\ sent.chat_streaming.built) => sent.chat = sent.chat_streaming

\* C36: a poll_device_flow call returns "complete" only when its token poll
\* answered success, and returns "pending" when the poll answered pending.
C36_CompleteOnlyAfterSuccess ==
    flow.pc = "returned" =>
        /\ flow.result = "complete" => flow.poll_status = "success"
        /\ flow.poll_status = "pending" => flow.result = "pending"

\* C38: a publish call that has returned, and that began with each handler
\* subscribed to the event type at most once, invoked the handlers subscribed
\* when it began, each once and in subscription order.
C38_EveryHandlerOnce ==
    (bus.pc = "published"
        /\ \A j, k \in DOMAIN bus.at_begin : bus.at_begin[j] = bus.at_begin[k] => j = k)
    => bus.invoked = bus.at_begin

\* C40: Mode.get(m.name) after Mode.create(m) returns a mode equal to m.
C40_CreateThenGet ==
    (modes.created # NoMode /\ modes.got.kind # "none"
        /\ modes.got.name = modes.created.name)
    => (modes.got.kind = "ok" /\ modes.got.mode = modes.created)

====
